---- MODULE Spec2Model ----
(***************************************************************************)
(* A model of gcamreader's query pipeline (src/gcamreader/querymi.py):     *)
(* the list-literal formatter _querylist, the result parser _parserslt,    *)
(* the engine runner _runmi and the runQuery / listScenariosInDB methods   *)
(* of LocalDBConn and RemoteDBConn, their constructors' validation, and   *)
(* the catalog reader parse_batch_query with the Query it makes.           *)
(*                                                                         *)
(* Specifications.  SpecQL, SpecParse, SpecEsc and SpecBatch apply one     *)
(* function to each of its inputs (_querylist, _parserslt, the CDATA       *)
(* escaping of RemoteDBConn.runQuery, parse_batch_query).  Spec runs the   *)
(* methods of a constructed connection, one call at a time; SpecDet does   *)
(* the same for runQuery alone and keeps the latest earlier invocation;    *)
(* SpecCtor runs the construction of a connection; SpecImport runs the    *)
(* loop of importdata over a catalog; SpecPool runs the batch driver of    *)
(* src/gcamreader/cli.py, execute with its pool of save workers.           *)
(*                                                                         *)
(* Text.  A Python str is a sequence of atoms.  An atom is one character,  *)
(* written as a one-character string; a fixed literal of the source none   *)
(* of whose characters the code ever inspects (a command-line word, the    *)
(* script's import statement) is kept as a single atom.                    *)
(*                                                                         *)
(* Python values.  An argument that may be None, a str or a list of str is *)
(* a record [t, v]: t is "None", "str" or "list" and v is <<>>, the text   *)
(* or the sequence of texts.                                               *)
(***************************************************************************)
EXTENDS Integers, Sequences, FiniteSets, TLC

\* ------------------------------------------------------------------ bounds

\* Longest item string given to _querylist.
MaxStrLen == 2
\* Longest item list given to _querylist.
MaxItems == 2
\* Most data rows in an engine output given to _parserslt.
MaxRows == 2

\* The longest script text given to the CDATA escaping.
MaxScriptLen == 6

\* Most elements under the root of a query catalog.
MaxElems == 3

\* Most queries in a catalog given to importdata.
MaxCatalog == 2

\* Most queries in a catalog given to the batch driver, each one a task of
\* the worker pool.
MaxTasks == 2

\* ------------------------------------------------------------------- state

VARIABLES
    qlItems,    \* _querylist: the argument
    qlRet,      \* _querylist: [done, v], the value returned
    prSrc,      \* _parserslt: the engine output, as the engine composed it
    prTxt,      \* _parserslt: the argument txt
    prWarn,     \* _parserslt: the argument warn_empty
    prRet,      \* _parserslt: [done, exc, val, log], how the call ended
    esTxt,      \* the CDATA escaping: the script text javastr
    esRet,      \* the CDATA escaping: [done, escaped, body]
    pbDoc,      \* parse_batch_query: the catalog document in the file
    pbRet,      \* parse_batch_query: [done, exc, val], how the call ended
    conn,       \* the connection object's attributes
    env,        \* the platform the program runs on
    pc,         \* where the call in progress stands
    call,       \* the call in progress: method and arguments
    loc,        \* the call's local variables
    fs,         \* the temporary files: whether each exists, is open, its text
    mi,         \* the engine invocations of the call: how many, the last one
    pend,       \* runQuery's try block: the return or exception in flight
    outcome,    \* how the call ended, for its caller
    errlog,     \* what the call wrote to sys.stderr
    parsed,     \* whether the call applied _parserslt
    prev,       \* the record of the latest earlier runQuery invocation
    ctor,       \* the connection's construction: its phase and how it ended
    imp,        \* importdata: its arguments, its loop and its dictionary
    batch,      \* execute: its phase, the force flag, the tasks, its messages
    job,        \* the pool's tasks: where each save call stands, what it has
    outdir      \* the output files: whether each exists, its table, its writer

\* ------------------------------------------------------------ Python values

PyNone == [t |-> "None", v |-> <<>>]

PyStr(s) == [t |-> "str", v |-> s]

PyList(l) == [t |-> "list", v |-> l]

\* Sequences over S of length at most n.
SeqUpTo(S, n) == UNION {[1..k -> S] : k \in 0..n}

\* str.join: the items separated by sep.
RECURSIVE Join(_, _)
Join(sep, items) ==
    IF Len(items) = 0 THEN <<>>
    ELSE IF Len(items) = 1 THEN items[1]
    ELSE items[1] \o sep \o Join(sep, Tail(items))

\* ---------------------------------------------------------------- _querylist

\* A plausible slip: the items joined by a bare comma, the quotes only at the
\* two ends.
QuerylistBareComma(items) ==
    IF items.t = "None" \/ Len(items.v) = 0 THEN <<"(", ")">>
    ELSE LET l == IF items.t = "str" THEN <<items.v>> ELSE items.v
         IN  <<"(", "'">> \o Join(<<",">>, l) \o <<"'", ")">>

\* A plausible slip: the promotion of a bare string left out, so that join
\* runs over the string's characters.
QuerylistNoPromotion(items) ==
    IF items.t = "None" \/ Len(items.v) = 0 THEN <<"(", ")">>
    ELSE LET l == IF items.t = "str"
                  THEN [i \in 1..Len(items.v) |-> <<items.v[i]>>]
                  ELSE items.v
         IN  <<"(", "'">> \o Join(<<"'", ",", "'">>, l) \o <<"'", ")">>

\* _querylist(items): "()" for None and for anything of length 0 (the empty
\* list, and the empty string too); otherwise a bare string becomes a
\* one-element list and the result is "('" + "','".join(items) + "')".
_querylist(items) ==
    IF items.t = "None" \/ Len(items.v) = 0 THEN <<"(", ")">>
    ELSE LET l == IF items.t = "str" THEN <<items.v>> ELSE items.v
         IN  <<"(", "'">> \o Join(<<"'", ",", "'">>, l) \o <<"'", ")">>

\* The characters of the item strings.
ItemChars == {"U", "S"}

ItemStrs == SeqUpTo(ItemChars, MaxStrLen)

\* What a caller may pass as scenarios or regions.
QLInputs ==
    {PyNone} \cup {PyStr(s) : s \in ItemStrs}
             \cup {PyList(l) : l \in SeqUpTo(ItemStrs, MaxItems)}


\* -------------------------------------------------------------------- text

NL == "\n"

\* The index of the first d in s, 0 when there is none.
RECURSIVE IndexOf(_, _)
IndexOf(s, d) ==
    IF Len(s) = 0 THEN 0
    ELSE IF Head(s) = d THEN 1
    ELSE LET r == IndexOf(Tail(s), d) IN IF r = 0 THEN 0 ELSE r + 1

\* str.split(d): the pieces of s between the occurrences of d.
RECURSIVE Split(_, _)
Split(s, d) ==
    LET i == IndexOf(s, d)
    IN  IF i = 0 THEN <<s>>
        ELSE <<SubSeq(s, 1, i - 1)>> \o Split(SubSeq(s, i + 1, Len(s)), d)

\* Whether pat occurs in s as a contiguous run.
Contains(s, pat) ==
    \E i \in 1..(Len(s) - Len(pat) + 1) : SubSeq(s, i, i + Len(pat) - 1) = pat

\* A plausible slip: the substitution left out, the string used as it is.
StripAtomLeftOut(s, d) == s

\* re.sub(d, "", s): every occurrence of the atom d removed.
StripAtom(s, d) == SelectSeq(s, LAMBDA c : c # d)

Digits == <<"0", "1", "2", "3", "4", "5", "6", "7", "8", "9">>

IsDigit(c) == \E i \in 1..10 : Digits[i] = c

DigitVal(c) == (CHOOSE i \in 1..10 : Digits[i] = c) - 1

IsNumeral(s) == Len(s) > 0 /\ \A i \in 1..Len(s) : IsDigit(s[i])

RECURSIVE ParseInt(_)
ParseInt(s) ==
    IF Len(s) = 0 THEN 0
    ELSE 10 * ParseInt(SubSeq(s, 1, Len(s) - 1)) + DigitVal(s[Len(s)])

\* The characters of the cells in their code-point order (what sorting a
\* string column compares).
CodeOrder ==
    <<"-", ".", "0", "1", "2", "3", "4", "5", "6", "7", "8", "9",
      "A", "D", "E", "F", "N", "S", "U", "a", "d", "e", "f", "r", "v">>

Ord(c) == CHOOSE i \in 1..Len(CodeOrder) : CodeOrder[i] = c

\* s < t for two strings, as Python compares them.
RECURSIVE StrLess(_, _)
StrLess(s, t) ==
    IF Len(t) = 0 THEN FALSE
    ELSE IF Len(s) = 0 THEN TRUE
    ELSE IF Head(s) = Head(t) THEN StrLess(Tail(s), Tail(t))
    ELSE Ord(Head(s)) < Ord(Head(t))

\* ------------------------------------------------------------------ pandas
\* A cell of a data frame is a record [k, n, s]: a number, a string or NaN.

Num(n) == [k |-> "num", n |-> n, s |-> <<>>]

Str(s) == [k |-> "str", n |-> 0, s |-> s]

NaN == [k |-> "nan", n |-> 0, s |-> <<>>]

\* A data frame is [kind |-> "df", cols, rows]; None is NoneVal.
DF(cols, rows) == [kind |-> "df", cols |-> cols, rows |-> rows]

NoneVal == [kind |-> "None", cols |-> <<>>, rows |-> <<>>]

\* What a function call ends with: a value returned or an exception raised,
\* and the texts it wrote to sys.stderr on the way.
Returned(val, log) == [exc |-> "", val |-> val, log |-> log]

Raised(exc, log) == [exc |-> exc, val |-> NoneVal, log |-> log]

\* The cell texts read_csv takes for a missing value (its default na_values;
\* the entries the inputs can spell).
NaValues == {<<>>, <<"N", "A">>, <<"N", "a", "N">>}

\* Lines of the text, blank lines skipped (skip_blank_lines).
CsvLines(txt) == SelectSeq(Split(txt, NL), LAMBDA l : Len(l) > 0)

\* A data line's fields, padded with missing values to n fields.
PadFields(f, n) == [j \in 1..n |-> IF j <= Len(f) THEN f[j] ELSE <<>>]

\* Column j is numeric when every cell that is not missing is a numeral.
NumericCol(data, j) ==
    \A i \in 1..Len(data) : data[i][j] \in NaValues \/ IsNumeral(data[i][j])

CellOf(data, i, j) ==
    IF data[i][j] \in NaValues THEN NaN
    ELSE IF NumericCol(data, j) THEN Num(ParseInt(data[i][j]))
    ELSE Str(data[i][j])

\* pd.read_csv(buf) with its defaults.  No line at all: EmptyDataError.  The
\* first line is the header; the first data line sets the number of fields
\* expected, a later line with more fields is a ParserError and one with
\* fewer is padded with NaN.  The inputs keep the first data line no longer
\* than the header (a longer one would become an implicit index) and the
\* header's names distinct.
read_csv(txt) ==
    LET lines == CsvLines(txt)
    IN  IF Len(lines) = 0 THEN Raised("EmptyDataError", <<>>)
        ELSE
        LET header == Split(lines[1], ",")
            n == Len(header)
            raw == [i \in 1..(Len(lines) - 1) |-> Split(lines[i + 1], ",")]
            expected == IF Len(raw) = 0 THEN n ELSE Len(raw[1])
        IN  IF expected > n THEN Raised("ImplicitIndex", <<>>)
            ELSE IF \E i \in 2..Len(raw) : Len(raw[i]) > expected
            THEN Raised("ParserError", <<>>)
            ELSE
            LET data == [i \in 1..Len(raw) |-> PadFields(raw[i], n)]
                rows == [i \in 1..Len(raw) |->
                            [j \in 1..n |-> CellOf(data, i, j)]]
            IN  Returned(DF(header, rows), <<>>)

\* a < b for two cells of one key column (a column holds numbers or strings).
CellLess(a, b) ==
    IF a.k = "num" /\ b.k = "num" THEN a.n < b.n
    ELSE IF a.k = "str" /\ b.k = "str" THEN StrLess(a.s, b.s)
    ELSE FALSE

\* Lexicographic order of two key tuples.
RECURSIVE KeyLess(_, _)
KeyLess(a, b) ==
    IF Len(a) = 0 THEN FALSE
    ELSE IF Head(a) = Head(b) THEN KeyLess(Tail(a), Tail(b))
    ELSE CellLess(Head(a), Head(b))

\* The key tuples of S in ascending order (groupby's sort=True).
RECURSIVE SortKeys(_)
SortKeys(S) ==
    IF S = {} THEN <<>>
    ELSE LET m == CHOOSE k \in S : \A o \in S : o = k \/ KeyLess(k, o)
         IN  <<m>> \o SortKeys(S \ {m})

\* The positions of the columns named name.
Positions(cols, name) == {j \in 1..Len(cols) : cols[j] = name}

\* Sum of the numbers in column vp over the rows whose index is in I; NaN
\* counts as nothing.
RECURSIVE SumOver(_, _, _)
SumOver(rows, vp, I) ==
    IF I = {} THEN 0
    ELSE LET i == CHOOSE x \in I : TRUE
         IN  (IF rows[i][vp].k = "num" THEN rows[i][vp].n ELSE 0)
             + SumOver(rows, vp, I \ {i})

\* The cells of a row in the key columns kp.
RowKey(row, kp) == [j \in 1..Len(kp) |-> row[kp[j]]]

\* A plausible slip: the first value of each group taken for its sum
\* (first() for sum()).
GroupbyFirst(df, value) ==
    IF Positions(df.cols, value) = {} THEN Raised("KeyError", <<>>)
    ELSE
    LET n == Len(df.cols)
        kp == SelectSeq([j \in 1..n |-> j], LAMBDA j : df.cols[j] # value)
        vp == CHOOSE j \in 1..n : df.cols[j] = value
        R == 1..Len(df.rows)
        kept == {i \in R : \A j \in 1..Len(kp) : df.rows[i][kp[j]].k # "nan"}
        keys == SortKeys({RowKey(df.rows[i], kp) : i \in kept})
        first(g) == CHOOSE i \in kept :
                       /\ RowKey(df.rows[i], kp) = keys[g]
                       /\ \A o \in kept :
                             RowKey(df.rows[o], kp) = keys[g] => i <= o
        out == [g \in 1..Len(keys) |-> keys[g] \o <<df.rows[first(g)][vp]>>]
    IN  IF Len(kp) = 0 /\ Len(df.rows) > 0 THEN Raised("ValueError", <<>>)
        ELSE Returned(DF([j \in 1..Len(kp) |-> df.cols[kp[j]]] \o <<value>>,
                         out), <<>>)

\* rslt.groupby(cols.drop(value).to_list(), as_index=False).sum().
\* Index.drop raises KeyError when no column has that label; groupby raises
\* ValueError ("No group keys passed!") for no key on a frame with rows; rows
\* with NaN in a key column are left out (dropna=True); one output row per
\* remaining key tuple in sorted order, the key columns first and then the
\* sum of the value column.
groupby_sum(df, value) ==
    IF Positions(df.cols, value) = {} THEN Raised("KeyError", <<>>)
    ELSE
    LET n == Len(df.cols)
        kp == SelectSeq([j \in 1..n |-> j], LAMBDA j : df.cols[j] # value)
        vp == CHOOSE j \in 1..n : df.cols[j] = value
        R == 1..Len(df.rows)
        kept == {i \in R : \A j \in 1..Len(kp) : df.rows[i][kp[j]].k # "nan"}
        keys == SortKeys({RowKey(df.rows[i], kp) : i \in kept})
        out == [g \in 1..Len(keys) |->
                   keys[g] \o <<Num(SumOver(df.rows, vp,
                       {i \in kept : RowKey(df.rows[i], kp) = keys[g]}))>>]
    IN  IF Len(kp) = 0 /\ Len(df.rows) > 0 THEN Raised("ValueError", <<>>)
        ELSE Returned(DF([j \in 1..Len(kp) |-> df.cols[kp[j]]] \o <<value>>,
                         out), <<>>)

value_col_name == <<"v", "a", "l", "u", "e">>

\* _parserslt(txt, warn_empty, title, stderr).  Only EmptyDataError is
\* caught: with warn_empty the handler writes its first line and then
\* formats the name query, which no scope of the module binds (NameError);
\* without it the handler returns None.  Any other exception of read_csv or
\* of the aggregation propagates.  The aggregation runs when some column
\* name contains "value" (cols.str.contains).
_parserslt(txt, warn_empty, title, stderr) ==
    LET r == read_csv(txt)
    IN  IF r.exc = "EmptyDataError"
        THEN IF warn_empty
             THEN Raised("NameError",
                         <<<<"Model interface returned empty string.\n">>>>)
             ELSE Returned(NoneVal, <<>>)
        ELSE IF r.exc # "" THEN r
        ELSE IF \E j \in 1..Len(r.val.cols) :
                    Contains(r.val.cols[j], value_col_name)
        THEN groupby_sum(r.val, value_col_name)
        ELSE r

\* ------------------------------------------------------------ engine output
\* What the query engine prints: a CSV text, described by its header, its
\* data rows (cell texts) and whether the last data row carries one field
\* too many.  The empty output has no header.

c_region == <<"r", "e", "g", "i", "o", "n">>

c_Year == <<"Y", "e", "a", "r">>

c_values == <<"v", "a", "l", "u", "e", "s">>

c_name == <<"n", "a", "m", "e">>

c_date == <<"d", "a", "t", "e">>

Headers ==
    { <<c_region, value_col_name>>,
      <<value_col_name>>,
      <<c_region, c_Year, value_col_name>>,
      <<value_col_name, c_region>>,
      <<c_name, c_date>>,
      <<c_region, c_values>> }

\* The cell texts a column can hold.
CellTexts(col) ==
    IF col = c_region THEN {<<"U", "S", "A">>, <<"E", "U">>, <<>>}
    ELSE IF col = c_Year THEN {<<"2", "0", "2", "0">>, <<"2", "0", "5", "0">>}
    ELSE IF col = c_name THEN {<<"r", "e", "f">>}
    ELSE IF col = c_date THEN {<<"d", "1">>, <<"d", "2">>}
    ELSE {<<"5">>, <<"3">>}

RowsOf(h) ==
    {r \in [1..Len(h) -> UNION {CellTexts(h[j]) : j \in 1..Len(h)}] :
        \A j \in 1..Len(h) : r[j] \in CellTexts(h[j])}

EmptySrc == [header |-> <<>>, rows |-> <<>>, extra |-> FALSE]

\* A ragged text needs a first data row that sets the field count and a
\* later one that exceeds it.
SourcesOf(h) ==
    {src \in [header : {h}, rows : SeqUpTo(RowsOf(h), MaxRows),
              extra : BOOLEAN] : src.extra => Len(src.rows) >= 2}

Sources == {EmptySrc} \cup UNION {SourcesOf(h) : h \in Headers}

\* The text printed: the header line and the data lines, each ended by a
\* newline.
EngineCsv(src) ==
    IF Len(src.header) = 0 THEN <<>>
    ELSE LET n == Len(src.rows)
             line(i) == Join(<<",">>, src.rows[i])
                        \o (IF src.extra /\ i = n THEN <<",", "9">> ELSE <<>>)
         IN  Join(<<NL>>, <<Join(<<",">>, src.header)>>
                          \o [i \in 1..n |-> line(i)]) \o <<NL>>

\* ------------------------------------------------------------------ _runmi
\* A text attribute that may be None is a Python value: PyNone or PyStr(text).

\* No exception object.
NoErr ==
    [cmd |-> <<>>, returncode |-> 0, output |-> PyNone, stderr |-> PyNone,
     status |-> 0, body |-> PyNone]

\* subprocess.CalledProcessError: cmd, returncode, output (stdout), stderr.
CalledProcessError(cmd, returncode, output, stderr) ==
    [cmd |-> cmd, returncode |-> returncode, output |-> output,
     stderr |-> stderr, status |-> 0, body |-> PyNone]

\* requests.HTTPError: the response, with its status and its body.
HTTPError(resp) ==
    [cmd |-> <<>>, returncode |-> 0, output |-> PyNone, stderr |-> PyNone,
     status |-> resp.status, body |-> PyStr(resp.text)]

\* A plausible slip: the handler logs the failure and falls through instead
\* of raising again, so that the caller goes on with the output.
RunmiSwallows(cmd, querystr, proc, py35) ==
    [exc |-> "", errobj |-> NoErr, miout |-> proc.out, mierr |-> proc.err,
     log |-> IF proc.rc = 0 THEN <<>>
             ELSE <<<<"Model interface run failed.\n">>>>]

\* A plausible slip: the error raised again without the captured standard
\* error.
RunmiDropsStderr(cmd, querystr, proc, py35) ==
    IF proc.rc = 0
    THEN [exc |-> "", errobj |-> NoErr, miout |-> proc.out,
          mierr |-> proc.err, log |-> <<>>]
    ELSE [exc |-> "CalledProcessError",
          errobj |-> CalledProcessError(cmd, 1, PyNone, PyNone),
          miout |-> <<>>, mierr |-> <<>>,
          log |-> << <<"Model interface run failed.\n">>,
                     <<"Query string: \n\t">> \o querystr \o <<NL>> >>]

\* A plausible slip: the handler concatenates the command line, a list, to
\* its label without joining it, so that the logging raises TypeError in
\* place of the engine's error.
RunmiLogReplacesError(cmd, querystr, proc, py35) ==
    IF proc.rc = 0
    THEN [exc |-> "", errobj |-> NoErr, miout |-> proc.out,
          mierr |-> proc.err, log |-> <<>>]
    ELSE [exc |-> "TypeError", errobj |-> NoErr, miout |-> <<>>,
          mierr |-> <<>>, log |-> << <<"Model interface run failed.\n">> >>]

\* _runmi(cmd, querystr), given what the engine process did (proc: its exit
\* status, standard output and standard error) and which interpreter branch
\* runs (py35: sys.hexversion >= 0x03050000).  Exit status 0: the pair
\* (miout, mierr) is returned.  Otherwise a CalledProcessError is raised
\* (by sp.run's check=True, with stdout and stderr; or, before 3.5, built by
\* hand with returncode 1 and the standard error as its output); the handler
\* writes the failure, the command line, the query string and the standard
\* error to sys.stderr and raises the same error again.
_runmi(cmd, querystr, proc, py35) ==
    IF proc.rc = 0
    THEN [exc |-> "", errobj |-> NoErr, miout |-> proc.out,
          mierr |-> proc.err, log |-> <<>>]
    ELSE LET e == IF py35
                  THEN CalledProcessError(cmd, proc.rc, PyStr(proc.out),
                                          PyStr(proc.err))
                  ELSE CalledProcessError(cmd, 1, PyStr(proc.err), PyNone)
         IN  [exc |-> "CalledProcessError", errobj |-> e,
              miout |-> <<>>, mierr |-> <<>>,
              log |-> << <<"Model interface run failed.\n">>,
                         <<"Command line: \n\t">> \o Join(<<" ">>, cmd) \o <<NL>>,
                         <<"Query string: \n\t">> \o querystr \o <<NL>>,
                         <<"Model interface stderr output:\n">>,
                         IF py35 THEN e.stderr.v ELSE e.output.v >>]

\* ------------------------------------------------- building the invocation

\* A plausible slip: "if not regions" for "if regions is None", which sends an
\* explicit empty list back to the query's own filter.
EffectiveRegionsFalsy(regions, query) ==
    IF regions.t = "None" \/ Len(regions.v) = 0 THEN query.regions ELSE regions

\* runQuery: the regions argument when it is not None, else the region list
\* parsed from the query (which may be None).
EffectiveRegions(regions, query) ==
    IF regions.t = "None" THEN query.regions ELSE regions

s_import ==
    "import module namespace mi = 'ModelInterface.ModelGUI2.xmldb.RunMIQuery';"

s_call == "mi:runMIQuery("

\* A plausible slip: the script opened with a comment naming the file it is
\* written to.
ScriptTextNamesFile(querystr, xqscen, xqrgn) ==
    <<"(: ">> \o loc.tmp \o <<" :)", s_import, s_call>> \o querystr \o <<",">>
        \o xqscen \o <<",">> \o xqrgn \o <<")">>

\* LocalDBConn.runQuery: the text written to the temporary file.
ScriptText(querystr, xqscen, xqrgn) ==
    <<s_import, s_call>> \o querystr \o <<",">> \o xqscen \o <<",">>
        \o xqrgn \o <<")">>

\* LocalDBConn.runQuery: the script as a function of the call's arguments;
\* the query string has its newlines removed.
LocalScript(query, scenarios, regions) ==
    ScriptText(StripAtom(query.querystr, NL), _querylist(scenarios),
               _querylist(EffectiveRegions(regions, query)))

\* str(self.suppress_gabble)
PyBoolStr(b) == IF b THEN <<"True">> ELSE <<"False">>

\* LocalDBConn.runQuery: the engine's command line, ending with the name of
\* the temporary file.
LocalCmd(self, tmpname) ==
    << <<"java">>, <<"-cp">>, self.miclasspath, <<"-Xmx">> \o self.maxMemory,
       <<"-Dorg.basex.DBPATH=">> \o self.dbpath,
       <<"-DModelInterface.SUPPRESS_OUTPUT=">> \o PyBoolStr(self.suppress_gabble),
       <<"org.basex.BaseX">>, <<"-smethod=csv">>,
       <<"-scsv=header=yes,format=xquery">>, <<"-i">>, self.dbfile,
       <<"RUN">>, tmpname >>

\* listScenariosInDB: the fixed introspection query.
ListScenariosQuery ==
    <<"let $scns := collection()/scenario return document{ element csv { for $scn in $scns return element record { element name  { text { $scn/@name } }, element date { text { $scn/@date } }, element version { text{ $scn/model-version/text() } } } } }">>

\* LocalDBConn.listScenariosInDB: the command line, the query given inline.
LocalListCmd(self) ==
    << <<"java">>, <<"-cp">>, self.miclasspath, <<"-Xmx">> \o self.maxMemory,
       <<"-Dorg.basex.DBPATH=">> \o self.dbpath,
       <<"org.basex.BaseX">>, <<"-smethod=csv">>, <<"-scsv=header=yes">>,
       <<"-i">>, self.dbfile, ListScenariosQuery >>

\* str.replace(pat, rep): every occurrence of pat, found left to right
\* without overlap, replaced by rep.
RECURSIVE Replace(_, _, _)
Replace(s, pat, rep) ==
    IF Len(s) < Len(pat) THEN s
    ELSE IF SubSeq(s, 1, Len(pat)) = pat
    THEN rep \o Replace(SubSeq(s, Len(pat) + 1, Len(s)), pat, rep)
    ELSE <<Head(s)>> \o Replace(Tail(s), pat, rep)

CdataOpen == "<![CDATA["

CdataClose == <<"]", "]", ">">>

\* RemoteDBConn.runQuery: the script, before and after the escaping of the
\* CDATA closing delimiter.  The query string goes in as it is.
JavaText(querystr, xqscen, xqrgn) ==
    <<s_import, s_call>> \o querystr \o <<",", " ">> \o xqscen
        \o <<",", " ">> \o xqrgn \o <<")">>

RemoteJavastr(query, scenarios, regions) ==
    JavaText(query.querystr, _querylist(scenarios),
             _querylist(EffectiveRegions(regions, query)))

\* A plausible slip: the delimiter split without keeping its two brackets in
\* the section that ends.
EscapeCdataDropsBrackets(javastr) ==
    Replace(javastr, CdataClose, <<"]", "]", ">", CdataOpen, ">">>)

\* javastr.replace("]]>", "]]]]><![CDATA[>")
EscapeCdata(javastr) ==
    Replace(javastr, CdataClose, <<"]", "]", "]", "]", ">", CdataOpen, ">">>)

\* RemoteDBConn.runQuery: the request body around the escaped script.
RestBody(escaped) ==
    Join(<<" ">>,
         << <<"<rest:query xmlns:rest=\"http://basex.org/rest\">">>,
            <<"<rest:text>", CdataOpen>>,
            escaped,
            CdataClose \o <<"</rest:text>">>,
            <<"<rest:parameter name=\"method\" value=\"csv\"/>">>,
            <<"<rest:parameter name=\"media-type\" value=\"text/csv\"/>">>,
            <<"<rest:parameter name=\"csv\" value=\"header=yes,format=xquery\"/>">>,
            <<"</rest:query>">> >>)

\* RemoteDBConn.runQuery: the request body as a function of the call's
\* arguments.
RestQuery(query, scenarios, regions) ==
    RestBody(EscapeCdata(RemoteJavastr(query, scenarios, regions)))

\* RemoteDBConn.listScenariosInDB: the request body, its parts joined by
\* newlines.
RestListQuery ==
    Join(<<NL>>,
         << <<"<rest:query xmlns:rest=\"http://basex.org/rest\">">>,
            <<"<rest:text>", CdataOpen>>,
            ListScenariosQuery,
            CdataClose \o <<"</rest:text>">>,
            <<"<rest:parameter name=\"method\" value=\"csv\"/>">>,
            <<"<rest:parameter name=\"media-type\" value=\"text/csv\"/>">>,
            <<"<rest:parameter name=\"csv\" value=\"header=yes\"/>">>,
            <<"</rest:query>">> >>)

\* The request URL: "http://" + address + ":" + str(port) + "/rest/" + dbfile.
RestUrl(self) ==
    <<"http://">> \o self.address \o <<":">> \o self.port.v \o <<"/rest/">>
        \o self.dbfile

\* Response.raise_for_status(): HTTPError for a status from 400 to 599,
\* nothing for any other.
RaisesForStatus(status) == 400 <= status /\ status < 600

c_fqName == <<"f", "q", "N", "a", "m", "e">>

\* listScenariosInDB, after the parse: scen_df['fqName'] = scen_df['name'] +
\* " " + scen_df['date'] when the table is not None; a table lacking one of
\* the two columns raises KeyError, a numeric one of the two TypeError, and a
\* missing name or date gives a missing fqName.
AddFqName(r) ==
    IF r.exc # "" \/ r.val.kind = "None" THEN r
    ELSE IF Positions(r.val.cols, c_name) = {} \/ Positions(r.val.cols, c_date) = {}
    THEN Raised("KeyError", r.log)
    ELSE LET df == r.val
             np == CHOOSE j \in 1..Len(df.cols) : df.cols[j] = c_name
             dp == CHOOSE j \in 1..Len(df.cols) : df.cols[j] = c_date
             fq(row) == IF row[np].k = "str" /\ row[dp].k = "str"
                        THEN Str(row[np].s \o <<" ">> \o row[dp].s)
                        ELSE NaN
         IN  IF \E i \in 1..Len(df.rows) :
                    df.rows[i][np].k = "num" \/ df.rows[i][dp].k = "num"
             THEN Raised("TypeError", r.log)
             ELSE
             Returned(DF(df.cols \o <<c_fqName>>,
                         [i \in 1..Len(df.rows) |-> df.rows[i] \o <<fq(df.rows[i])>>]),
                      r.log)

\* --------------------------------------------------- the calls' inputs

s_USA == <<"U", "S", "A">>

s_EU == <<"E", "U">>

s_ref == <<"r", "e", "f">>

t_title == <<"l", "a", "n", "d">>

\* A character the locale's encoding cannot encode when that encoding is not
\* UTF-8 (U+2192, say, under cp1252).
c_arrow == "U+2192"

\* Query objects as Query.__init__ leaves them: the title, the serialized
\* query element and the region list, None or non-empty.
NoQuery == [title |-> <<>>, querystr |-> <<>>, regions |-> PyNone]

Queries ==
    { [title |-> t_title,
       querystr |-> <<"<landQuery title=\"land\">", NL, "<q/>", NL,
                      "</landQuery>", NL>>,
       regions |-> PyNone],
      [title |-> t_title,
       querystr |-> <<"<landQuery title=\"land\">", NL, "<q/>", NL,
                      "</landQuery>", NL>>,
       regions |-> PyList(<<s_USA>>)],
      [title |-> <<"c", "d">>,
       querystr |-> <<"<q title=\"cd\">", CdataOpen, "a", "]", "]", ">",
                      "</q>">>,
       regions |-> PyList(<<s_USA, s_EU>>)],
      [title |-> <<"a", "r">>,
       querystr |-> <<"<q title=\"ar\">", c_arrow, "</q>">>,
       regions |-> PyNone] }

\* ------------------------------------------- Query and parse_batch_query
\* An XML element is [tag, title, name, xml, children]: its tag, its title
\* and name attributes (None when absent), its serialization with the text
\* that follows it (ET.tounicode) and its child elements in document order.

Elem(tag, title, name, xml, children) ==
    [tag |-> tag, title |-> title, name |-> name, xml |-> xml,
     children |-> children]

x_land ==
    Elem("landQuery", PyStr(t_title), PyNone,
         <<"<landQuery title=\"land\">", NL, "<q/>", NL, "</landQuery>", NL>>,
         <<>>)

x_cd ==
    Elem("q", PyStr(<<"c", "d">>), PyNone,
         <<"<q title=\"cd\">", CdataOpen, "a", "]", "]", ">", "</q>">>, <<>>)

x_USA == Elem("region", PyNone, PyStr(s_USA), <<"<region name=\"USA\"/>">>, <<>>)

x_EU == Elem("region", PyNone, PyStr(s_EU), <<"<region name=\"EU\"/>">>, <<>>)

x_comments == Elem("comments", PyNone, PyNone, <<"<comments/>">>, <<>>)

AQuery(children) == Elem("aQuery", PyNone, PyNone, <<>>, children)

\* The elements a catalog may hold under its root: query elements with a
\* titled child alone, after regions, between regions, after another
\* element, with two titled children, with regions only, with nothing; and
\* a group holding a query element one level down.
TopElems ==
    { AQuery(<<x_land>>),
      AQuery(<<x_USA, x_land>>),
      AQuery(<<x_USA, x_EU, x_cd>>),
      AQuery(<<x_EU, x_cd, x_USA>>),
      AQuery(<<x_comments, x_cd>>),
      AQuery(<<x_land, x_cd>>),
      AQuery(<<x_USA>>),
      AQuery(<<>>),
      Elem("queryGroup", PyNone, PyNone, <<>>, <<AQuery(<<x_land>>)>>) }

\* The catalog files: a well-formed document, given by the elements under
\* its root, or a text that is not well-formed XML.
Docs ==
    {[ok |-> TRUE, children |-> c] : c \in SeqUpTo(TopElems, MaxElems)}
    \cup {[ok |-> FALSE, children |-> <<>>]}

\* A plausible slip: the empty list for a query without region elements.
QueryEmptyRegions(xmlq) ==
    LET titled == SelectSeq(xmlq.children, LAMBDA c : c.title.t # "None")
        regions == SelectSeq(xmlq.children, LAMBDA c : c.tag = "region")
    IN  IF Len(titled) = 0 THEN [exc |-> "TypeError", q |-> NoQuery]
        ELSE [exc |-> "",
              q |-> [title |-> titled[1].title.v, querystr |-> titled[1].xml,
                     regions |-> PyList([i \in 1..Len(regions) |->
                                            regions[i].name.v])]]

\* A plausible slip: the missing child guarded against, a query without
\* title and body made of the element.
QueryWithoutTitle(xmlq) ==
    LET titled == SelectSeq(xmlq.children, LAMBDA c : c.title.t # "None")
        regions == SelectSeq(xmlq.children, LAMBDA c : c.tag = "region")
    IN  [exc |-> "",
         q |-> [title |-> IF Len(titled) = 0 THEN <<>> ELSE titled[1].title.v,
                querystr |-> IF Len(titled) = 0 THEN <<>> ELSE titled[1].xml,
                regions |-> IF Len(regions) = 0 THEN PyNone
                            ELSE PyList([i \in 1..Len(regions) |->
                                            regions[i].name.v])]]

\* Query(xmlq), for a parsed element: [exc, q].  query is the first child
\* with a title attribute; with no such child find gives None and
\* ET.tounicode(None) raises TypeError.  querystr is the child's
\* serialization, regions None without region children and else the list of
\* their name attributes, title the child's title attribute.
Query(xmlq) ==
    LET titled == SelectSeq(xmlq.children, LAMBDA c : c.title.t # "None")
        regions == SelectSeq(xmlq.children, LAMBDA c : c.tag = "region")
    IN  IF Len(titled) = 0 THEN [exc |-> "TypeError", q |-> NoQuery]
        ELSE [exc |-> "",
              q |-> [title |-> titled[1].title.v, querystr |-> titled[1].xml,
                     regions |-> IF Len(regions) = 0 THEN PyNone
                                 ELSE PyList([i \in 1..Len(regions) |->
                                                 regions[i].name.v])]]

\* [Query(q) for q in queries]: the exception of the first element that
\* raises, else the list of the queries.
QueryEach(queries) ==
    LET made == [i \in 1..Len(queries) |-> Query(queries[i])]
    IN  IF \E i \in 1..Len(made) : made[i].exc # ""
        THEN [exc |-> made[CHOOSE i \in 1..Len(made) :
                               /\ made[i].exc # ""
                               /\ \A k \in 1..(i - 1) : made[k].exc = ""].exc,
              val |-> <<>>]
        ELSE [exc |-> "", val |-> [i \in 1..Len(made) |-> made[i].q]]

\* A plausible slip: findall('.//aQuery'), which finds the query elements at
\* every depth.
ParseBatchDescendants(doc) ==
    IF ~doc.ok THEN [exc |-> "XMLSyntaxError", val |-> <<>>]
    ELSE QueryEach(Join(<<>>,
             [i \in 1..Len(doc.children) |->
                 IF doc.children[i].tag = "aQuery" THEN <<doc.children[i]>>
                 ELSE SelectSeq(doc.children[i].children,
                                LAMBDA c : c.tag = "aQuery")]))

\* parse_batch_query(filename), given the document in the file: [exc, val].
\* ET.parse raises XMLSyntaxError for a text that is not well-formed;
\* root.findall('aQuery') gives the aQuery children of the root in document
\* order, and a Query is made of each.
parse_batch_query(doc) ==
    IF ~doc.ok THEN [exc |-> "XMLSyntaxError", val |-> <<>>]
    ELSE QueryEach(SelectSeq(doc.children, LAMBDA c : c.tag = "aQuery"))

ScenarioArgs == {PyNone, PyList(<<s_ref>>)}

RegionArgs == {PyNone, PyList(<<>>), PyList(<<s_EU>>), PyStr(s_USA)}

\* The port of a remote connection: an int (the default, 8984) or a string;
\* v is its decimal text.
Ports == {[t |-> "int", v |-> <<"8984">>], [t |-> "str", v |-> <<"8984">>]}

\* The connections: a local one with either setting of suppress_gabble and
\* a remote one with either kind of port.
Conns ==
    {[kind |-> "local", dbpath |-> <<"/data/db">>,
      dbfile |-> <<"sample_basexdb">>, suppress_gabble |-> b,
      miclasspath |-> <<"/mi/jars/*:/mi/ModelInterface.jar">>,
      maxMemory |-> <<"4g">>] : b \in BOOLEAN}
    \cup
    {[kind |-> "remote", dbfile |-> <<"sample_basexdb">>,
      username |-> <<"user">>, password |-> <<"pw">>,
      address |-> <<"localhost">>, port |-> p] : p \in Ports}

\* The platform: whether sys.hexversion >= 0x03050000, whether the system is
\* Windows (where a file with an open handle cannot be removed), and whether
\* the locale's preferred encoding, which the temporary file is opened with,
\* is UTF-8.
Envs == [py35 : BOOLEAN, nt : BOOLEAN, utf8 : BOOLEAN]

\* Names NamedTemporaryFile may pick.
TmpNames == {<<"/tmp/tmpa">>, <<"/tmp/tmpb">>}

NoFile == [exists |-> FALSE, open |-> FALSE, text |-> <<>>]

\* What the engine prints for a query: nothing, a table with a key that
\* occurs twice, a ragged text, a table with a column values.
RunSources ==
    { EmptySrc,
      [header |-> <<c_region, value_col_name>>,
       rows |-> << <<s_USA, <<"5">>>>, <<s_USA, <<"3">>>> >>, extra |-> FALSE],
      [header |-> <<c_region, value_col_name>>,
       rows |-> << <<s_USA, <<"5">>>>, <<s_EU, <<"3">>>> >>, extra |-> TRUE],
      [header |-> <<c_region, c_values>>,
       rows |-> << <<s_USA, <<"5">>>> >>, extra |-> FALSE] }

c_version == <<"v", "e", "r", "s", "i", "o", "n">>

s_date1 == <<"2", "0", "2", "0", "-", "0", "1", "-", "0", "1">>

s_date2 == <<"2", "0", "2", "1", "-", "0", "1", "-", "0", "1">>

s_2050 == <<"2", "0", "5", "0">>

\* What the engine prints for the introspection query: nothing, one
\* scenario, the same scenario name under two dates, one scenario whose name
\* is a numeral.
ListSources ==
    { EmptySrc,
      [header |-> <<c_name, c_date, c_version>>,
       rows |-> << <<s_2050, s_date1, <<"v", "5">>>> >>, extra |-> FALSE],
      [header |-> <<c_name, c_date, c_version>>,
       rows |-> << <<s_ref, s_date1, <<"v", "5">>>> >>, extra |-> FALSE],
      [header |-> <<c_name, c_date, c_version>>,
       rows |-> << <<s_ref, s_date1, <<"v", "5">>>>,
                   <<s_ref, s_date2, <<"v", "5">>>> >>, extra |-> FALSE] }

e_fail == <<"org.basex.core.BaseXException: database not found">>

\* How an engine process may end: status 0 with its output, or a non-zero
\* status with a message on standard error.
EngineRuns(sources) ==
    {[rc |-> 0, out |-> EngineCsv(src), err |-> <<>>] : src \in sources}
    \cup {[rc |-> 2, out |-> <<>>, err |-> e_fail]}

\* How the server may answer: 200 with the engine's output, an error status
\* with a message, or a status that is neither (304, with no body).
Responses(sources) ==
    {[status |-> 200, text |-> EngineCsv(src)] : src \in sources}
    \cup {[status |-> st, text |-> e_fail] : st \in {404, 500}}
    \cup {[status |-> 304, text |-> <<>>]}

qlVars == <<qlItems, qlRet>>

prVars == <<prSrc, prTxt, prWarn, prRet>>

esVars == <<esTxt, esRet>>

\* The variables of the functions checked on their own.
pbVars == <<pbDoc, pbRet>>

\* The variables of the functions that call the connection's methods.
plVars == <<batch, job, outdir>>

drVars == <<imp, plVars>>

\* The variables no step of a connection's method changes.
fnVars == <<qlVars, prVars, esVars, pbVars, drVars>>

cnVars ==
    <<conn, env, pc, call, loc, fs, mi, pend, outcome, errlog, parsed, prev,
      ctor>>

vars == <<fnVars, cnVars>>

NotCalled == [done |-> FALSE, exc |-> "", val |-> NoneVal, log |-> <<>>]

Ended(r) == [done |-> TRUE, exc |-> r.exc, val |-> r.val, log |-> r.log]

\* The variables of the specifications that are not running.
QLIdle == qlItems = PyNone /\ qlRet = [done |-> FALSE, v |-> <<>>]

PRIdle == prSrc = EmptySrc /\ prTxt = <<>> /\ prWarn = FALSE /\ prRet = NotCalled

ESIdle == esTxt = <<>> /\ esRet = [done |-> FALSE, escaped |-> <<>>, body |-> <<>>]

PBIdle ==
    /\ pbDoc = [ok |-> FALSE, children |-> <<>>]
    /\ pbRet = [done |-> FALSE, exc |-> "", val |-> <<>>]

NoCall ==
    [op |-> "", query |-> NoQuery, scenarios |-> PyNone, regions |-> PyNone,
     warn_empty |-> FALSE]

NoLoc ==
    [xqscen |-> <<>>, xqrgn |-> <<>>, querystr |-> <<>>, tmp |-> <<>>,
     cmd |-> <<>>, body |-> <<>>, url |-> <<>>, miout |-> <<>>, mierr |-> <<>>]

NoRun ==
    [runs |-> 0, cmd |-> <<>>, url |-> <<>>, payload |-> <<>>, rc |-> 0,
     status |-> 0, out |-> <<>>, err |-> <<>>]

NoPend == [set |-> FALSE, exc |-> "", errobj |-> NoErr, val |-> NoneVal]

Pending(exc, errobj, val) ==
    [set |-> TRUE, exc |-> exc, errobj |-> errobj, val |-> val]

NotDone == [done |-> FALSE, exc |-> "", errobj |-> NoErr, val |-> NoneVal]

Outcome(exc, errobj, val) ==
    [done |-> TRUE, exc |-> exc, errobj |-> errobj, val |-> val]

\* The record of the latest earlier invocation: not kept (on is FALSE), or
\* kept and still empty.
NoPrev(on) ==
    [on |-> on, set |-> FALSE, query |-> NoQuery, scenarios |-> PyNone,
     regions |-> PyNone, cmd |-> <<>>, url |-> <<>>, payload |-> <<>>]

\* The construction of the connection: the phase ("new": the attributes
\* are set and the validation not begun; "validating"; "constructed";
\* "failed": __init__ raised), what listScenariosInDB gave the validation,
\* the exception raised and its message, and what was written to sys.stdout.
Ctor(phase, dbscen, exc, msg, stdout) ==
    [phase |-> phase, dbscen |-> dbscen, exc |-> exc, msg |-> msg,
     stdout |-> stdout]

\* A connection in use, its construction over.
Constructed == Ctor("constructed", NotDone, "", <<>>, <<>>)

\* importdata not called: phase is "off" where it is not modelled and "new"
\* before the call; then "loop", and "returned" or "raised".  calls lists
\* the runQuery calls that have ended and rslts is the dictionary, a
\* sequence of [k, v] in insertion order.
NoImport ==
    [phase |-> "off", queries |-> <<>>, i |-> 0, scenarios |-> PyNone,
     regions |-> PyNone, warn_empty |-> FALSE, calls |-> <<>>,
     rslts |-> <<>>, exc |-> ""]

\* An output file: absent, or holding a table written by task by (0: the
\* file was there before the batch).
NoOut == [exists |-> FALSE, df |-> NoneVal, by |-> 0]

\* execute not called: phase is "off" where it is not modelled and "new"
\* before the call; then "mapping" (pool.map runs), and "complete" or
\* "raised".
NoBatch ==
    [phase |-> "off", force |-> FALSE, tasks |-> <<>>, echo |-> <<>>,
     exc |-> ""]

PoolIdle ==
    /\ batch = NoBatch
    /\ job = <<>>
    /\ outdir = [p \in {} |-> NoOut]

DRIdle == imp = NoImport /\ PoolIdle

\* No call in progress.
CallIdle ==
    /\ pc = "idle" /\ call = NoCall /\ loc = NoLoc /\ mi = NoRun
    /\ pend = NoPend /\ outcome = NotDone /\ errlog = <<>> /\ parsed = FALSE

CNIdle ==
    /\ conn = CHOOSE c \in Conns : c.kind = "remote" /\ c.port.t = "int"
    /\ env = [py35 |-> TRUE, nt |-> FALSE, utf8 |-> TRUE]
    /\ fs = [n \in TmpNames |-> NoFile]
    /\ prev = NoPrev(FALSE)
    /\ ctor = Constructed
    /\ CallIdle

\* ------------------------------------------------- _querylist, on its own

QLInit ==
    /\ qlItems \in QLInputs
    /\ qlRet = [done |-> FALSE, v |-> <<>>]
    /\ PRIdle
    /\ ESIdle
    /\ PBIdle
    /\ DRIdle
    /\ CNIdle

QLCall ==
    /\ ~qlRet.done
    /\ qlRet' = [done |-> TRUE, v |-> _querylist(qlItems)]
    /\ UNCHANGED <<qlItems, prVars, esVars, pbVars, drVars, cnVars>>

QLNext == QLCall

SpecQL == QLInit /\ [][QLNext]_vars

\* ------------------------------------------------- _parserslt, on its own

PRInit ==
    /\ prSrc \in Sources
    /\ prTxt = EngineCsv(prSrc)
    /\ prWarn \in BOOLEAN
    /\ prRet = NotCalled
    /\ QLIdle
    /\ ESIdle
    /\ PBIdle
    /\ DRIdle
    /\ CNIdle

PRCall ==
    /\ ~prRet.done
    /\ prRet' = Ended(_parserslt(prTxt, prWarn, t_title, <<>>))
    /\ UNCHANGED <<prSrc, prTxt, prWarn, qlVars, esVars, pbVars, drVars, cnVars>>

PRNext == PRCall

SpecParse == PRInit /\ [][PRNext]_vars

\* ------------------------------------ the CDATA escaping, on its own
\* RemoteDBConn.runQuery from the script text on: the escaping and the
\* request body around it.

\* The characters of the script texts: the two characters of the closing
\* delimiter, an opening delimiter and any other character.
ScriptChars == {"]", ">", CdataOpen, "a"}

ESInit ==
    /\ esTxt \in SeqUpTo(ScriptChars, MaxScriptLen)
    /\ esRet = [done |-> FALSE, escaped |-> <<>>, body |-> <<>>]
    /\ QLIdle
    /\ PRIdle
    /\ PBIdle
    /\ DRIdle
    /\ CNIdle

ESCall ==
    /\ ~esRet.done
    /\ esRet' = [done |-> TRUE, escaped |-> EscapeCdata(esTxt),
                 body |-> RestBody(EscapeCdata(esTxt))]
    /\ UNCHANGED <<esTxt, qlVars, prVars, pbVars, drVars, cnVars>>

ESNext == ESCall

SpecEsc == ESInit /\ [][ESNext]_vars

\* ------------------------------------------ parse_batch_query, on its own

PBInit ==
    /\ pbDoc \in Docs
    /\ pbRet = [done |-> FALSE, exc |-> "", val |-> <<>>]
    /\ QLIdle
    /\ PRIdle
    /\ ESIdle
    /\ DRIdle
    /\ CNIdle

PBCall ==
    /\ ~pbRet.done
    /\ LET r == parse_batch_query(pbDoc)
       IN  pbRet' = [done |-> TRUE, exc |-> r.exc, val |-> r.val]
    /\ UNCHANGED <<pbDoc, qlVars, prVars, esVars, drVars, cnVars>>

PBNext == PBCall

SpecBatch == PBInit /\ [][PBNext]_vars

\* -------------------------------------------- the methods of a connection
\* One call at a time on one connection.  A call is a sequence of steps; each
\* step is the code between two points where the world outside the program
\* (the file system, the engine process, the server) may act.

Range(f) == {f[i] : i \in DOMAIN f}

\* Whether the temporary file's encoding can encode the text.
Encodable(text) == env.utf8 \/ c_arrow \notin Range(text)

\* os.remove(name): FileNotFoundError when no file has that name;
\* PermissionError on Windows when the file still has an open handle;
\* otherwise the file is gone.
OsRemove(files, name, nt) ==
    IF ~files[name].exists THEN [exc |-> "FileNotFoundError", files |-> files]
    ELSE IF nt /\ files[name].open
    THEN [exc |-> "PermissionError", files |-> files]
    ELSE [exc |-> "", files |-> [files EXCEPT ![name] = NoFile]]

CNInit ==
    /\ conn \in Conns
    /\ env \in Envs
    /\ fs = [n \in TmpNames |-> NoFile]
    /\ prev = NoPrev(FALSE)
    /\ ctor = Constructed
    /\ CallIdle
    /\ QLIdle
    /\ PRIdle
    /\ ESIdle
    /\ PBIdle
    /\ DRIdle

\* LocalDBConn.runQuery, entry: the two list literals, the region list
\* chosen, the query string without its newlines.
LQ_Begin(q, sc, rg, w) ==
    /\ pc = "idle"
    /\ ctor.phase \in {"validating", "constructed"}
    /\ conn.kind = "local"
    /\ call' = [op |-> "runQuery", query |-> q, scenarios |-> sc,
                regions |-> rg, warn_empty |-> w]
    /\ loc' = [loc EXCEPT !.xqscen = _querylist(sc),
                          !.xqrgn = _querylist(EffectiveRegions(rg, q)),
                          !.querystr = StripAtom(q.querystr, NL)]
    /\ pc' = "lq_mktemp"
    /\ UNCHANGED <<fnVars, prev, ctor, conn, env, fs, mi, pend, outcome, errlog, parsed>>

\* A plausible slip: a name picked without regard to the files there are
\* (a fixed or predictable name, the file opened without exclusive
\* creation).
AnyNames(files) == TmpNames

\* The names NamedTemporaryFile may give a new file: the file is created
\* exclusively, so the name is one no file has.
FreshNames(files) == {n \in TmpNames : ~files[n].exists}

\* tempfile.NamedTemporaryFile(mode='w', delete=False): a new file under a
\* name no file has, open for writing.
LQ_MkTemp ==
    /\ pc = "lq_mktemp"
    /\ \E n \in FreshNames(fs) :
          /\ fs' = [fs EXCEPT ![n] = [exists |-> TRUE, open |-> TRUE,
                                      text |-> <<>>]]
          /\ loc' = [loc EXCEPT !.tmp = n]
    /\ pc' = "lq_write"
    /\ UNCHANGED <<fnVars, prev, ctor, conn, env, call, mi, pend, outcome, errlog, parsed>>

\* The try block up to the write: the command line is built and the script
\* written; a script the file's encoding cannot encode raises
\* UnicodeEncodeError with the file still open.
LQ_Write ==
    /\ pc = "lq_write"
    /\ LET script == ScriptText(loc.querystr, loc.xqscen, loc.xqrgn)
       IN  IF Encodable(script)
           THEN /\ fs' = [fs EXCEPT ![loc.tmp].text = script]
                /\ loc' = [loc EXCEPT !.cmd = LocalCmd(conn, loc.tmp),
                                      !.body = script]
                /\ pend' = pend
                /\ pc' = "lq_close"
           ELSE /\ fs' = fs
                /\ loc' = [loc EXCEPT !.cmd = LocalCmd(conn, loc.tmp)]
                /\ pend' = Pending("UnicodeEncodeError", NoErr, NoneVal)
                /\ pc' = "lq_finally"
    /\ UNCHANGED <<fnVars, prev, ctor, conn, env, call, mi, outcome, errlog, parsed>>

\* A plausible slip: the engine started with the file still open, its
\* close left for after the run.
LQ_CloseForgotten ==
    /\ pc = "lq_close"
    /\ pc' = "lq_runmi"
    /\ UNCHANGED <<fnVars, prev, ctor, conn, env, call, loc, fs, mi, pend, outcome, errlog, parsed>>

\* queryTempFile.close()
LQ_Close ==
    /\ pc = "lq_close"
    /\ fs' = [fs EXCEPT ![loc.tmp].open = FALSE]
    /\ pc' = "lq_runmi"
    /\ UNCHANGED <<fnVars, prev, ctor, conn, env, call, loc, mi, pend, outcome, errlog, parsed>>

\* miout, mierr = _runmi(cmd, query.querystr): the engine runs once on the
\* file the command line names.
LQ_RunMi ==
    /\ pc = "lq_runmi"
    /\ \E proc \in EngineRuns(RunSources) :
          LET r == _runmi(loc.cmd, call.query.querystr, proc, env.py35)
          IN  /\ mi' = [mi EXCEPT !.runs = @ + 1, !.cmd = loc.cmd,
                                  !.payload = fs[loc.tmp].text,
                                  !.rc = proc.rc, !.out = proc.out,
                                  !.err = proc.err]
              /\ errlog' = errlog \o r.log
              /\ IF r.exc # ""
                 THEN /\ pend' = Pending(r.exc, r.errobj, NoneVal)
                      /\ loc' = loc
                      /\ pc' = "lq_finally"
                 ELSE /\ pend' = pend
                      /\ loc' = [loc EXCEPT !.miout = r.miout,
                                            !.mierr = r.mierr]
                      /\ pc' = "lq_parse"
    /\ UNCHANGED <<fnVars, prev, ctor, conn, env, call, fs, outcome, parsed>>

\* return _parserslt(miout, warn_empty, query.title, mierr)
LQ_Parse ==
    /\ pc = "lq_parse"
    /\ LET r == _parserslt(loc.miout, call.warn_empty, call.query.title,
                           loc.mierr)
       IN  /\ pend' = Pending(r.exc, NoErr, r.val)
           /\ errlog' = errlog \o r.log
    /\ parsed' = TRUE
    /\ pc' = "lq_finally"
    /\ UNCHANGED <<fnVars, prev, ctor, conn, env, call, loc, fs, mi, outcome>>

\* A plausible slip: a failed engine run tried once more before the error
\* is let through.
LQ_FinallyRetries ==
    /\ pc = "lq_finally"
    /\ IF pend.exc = "CalledProcessError" /\ mi.runs < 2
       THEN /\ pend' = NoPend
            /\ pc' = "lq_runmi"
            /\ UNCHANGED <<fs, outcome>>
       ELSE LET rm == OsRemove(fs, loc.tmp, env.nt)
            IN  /\ fs' = rm.files
                /\ outcome' = IF rm.exc # ""
                              THEN Outcome(rm.exc, NoErr, NoneVal)
                              ELSE Outcome(pend.exc, pend.errobj, pend.val)
                /\ pc' = "done"
                /\ pend' = pend
    /\ UNCHANGED <<fnVars, prev, ctor, conn, env, call, loc, mi, errlog, parsed>>

\* finally: os.remove(queryTempFile.name); an exception of the clean-up
\* replaces the return or the exception in flight.
LQ_Finally ==
    /\ pc = "lq_finally"
    /\ LET rm == OsRemove(fs, loc.tmp, env.nt)
       IN  /\ fs' = rm.files
           /\ outcome' = IF rm.exc # "" THEN Outcome(rm.exc, NoErr, NoneVal)
                         ELSE Outcome(pend.exc, pend.errobj, pend.val)
    /\ pc' = "done"
    /\ UNCHANGED <<fnVars, prev, ctor, conn, env, call, loc, mi, pend, errlog, parsed>>

\* LocalDBConn.listScenariosInDB, up to _runmi: the engine runs once with the
\* introspection query on its command line.
LS_RunMi ==
    /\ pc = "idle"
    /\ ctor.phase \in {"validating", "constructed"}
    /\ conn.kind = "local"
    /\ call' = [NoCall EXCEPT !.op = "listScenariosInDB"]
    /\ \E proc \in EngineRuns(ListSources) :
          LET cmd == LocalListCmd(conn)
              r == _runmi(cmd, ListScenariosQuery, proc, env.py35)
          IN  /\ mi' = [mi EXCEPT !.runs = @ + 1, !.cmd = cmd,
                                  !.payload = ListScenariosQuery,
                                  !.rc = proc.rc, !.out = proc.out,
                                  !.err = proc.err]
              /\ errlog' = errlog \o r.log
              /\ IF r.exc # ""
                 THEN /\ outcome' = Outcome(r.exc, r.errobj, NoneVal)
                      /\ loc' = [loc EXCEPT !.querystr = ListScenariosQuery,
                                            !.cmd = cmd]
                      /\ pc' = "done"
                 ELSE /\ outcome' = outcome
                      /\ loc' = [loc EXCEPT !.querystr = ListScenariosQuery,
                                            !.cmd = cmd, !.miout = r.miout,
                                            !.mierr = r.mierr]
                      /\ pc' = "ls_parse"
    /\ UNCHANGED <<fnVars, prev, ctor, conn, env, fs, pend, parsed>>

\* LocalDBConn.listScenariosInDB, the rest: the parse without warning, the
\* fqName column, the return.
LS_Parse ==
    /\ pc = "ls_parse"
    /\ LET r == AddFqName(_parserslt(loc.miout, FALSE, <<"List Scenarios">>,
                                     loc.mierr))
       IN  /\ outcome' = Outcome(r.exc, NoErr, r.val)
           /\ errlog' = errlog \o r.log
    /\ parsed' = TRUE
    /\ pc' = "done"
    /\ UNCHANGED <<fnVars, prev, ctor, conn, env, call, loc, fs, mi, pend>>

\* A plausible slip: the region list chosen is stored in the Query object
\* (query.regions = regions) instead of in the local name.
RQ_BeginStoresRegions(q, sc, rg, w) ==
    /\ pc = "idle"
    /\ ctor.phase \in {"validating", "constructed"}
    /\ conn.kind = "remote"
    /\ call' = [op |-> "runQuery",
                query |-> [q EXCEPT !.regions = EffectiveRegions(rg, q)],
                scenarios |-> sc, regions |-> rg, warn_empty |-> w]
    /\ LET xqscen == _querylist(sc)
           xqrgn == _querylist(EffectiveRegions(rg, q))
       IN  loc' = [loc EXCEPT
                     !.xqscen = xqscen, !.xqrgn = xqrgn,
                     !.querystr = q.querystr,
                     !.body = RestBody(EscapeCdata(
                                  JavaText(q.querystr, xqscen, xqrgn))),
                     !.url = RestUrl(conn)]
    /\ pc' = "rq_post"
    /\ UNCHANGED <<fnVars, prev, ctor, conn, env, fs, mi, pend, outcome, errlog, parsed>>

\* RemoteDBConn.runQuery, up to the request: the list literals, the script
\* with its CDATA delimiters escaped, the request body and the URL.
RQ_Begin(q, sc, rg, w) ==
    /\ pc = "idle"
    /\ ctor.phase \in {"validating", "constructed"}
    /\ conn.kind = "remote"
    /\ call' = [op |-> "runQuery", query |-> q, scenarios |-> sc,
                regions |-> rg, warn_empty |-> w]
    /\ LET xqscen == _querylist(sc)
           xqrgn == _querylist(EffectiveRegions(rg, q))
       IN  loc' = [loc EXCEPT
                     !.xqscen = xqscen, !.xqrgn = xqrgn,
                     !.querystr = q.querystr,
                     !.body = RestBody(EscapeCdata(
                                  JavaText(q.querystr, xqscen, xqrgn))),
                     !.url = RestUrl(conn)]
    /\ pc' = "rq_post"
    /\ UNCHANGED <<fnVars, prev, ctor, conn, env, fs, mi, pend, outcome, errlog, parsed>>

\* r = post(url, auth, data=restquery); r.raise_for_status()
RQ_Post ==
    /\ pc = "rq_post"
    /\ \E resp \in Responses(RunSources) :
          /\ mi' = [mi EXCEPT !.runs = @ + 1, !.url = loc.url,
                              !.payload = loc.body, !.status = resp.status,
                              !.out = resp.text]
          /\ IF RaisesForStatus(resp.status)
             THEN /\ outcome' = Outcome("HTTPError", HTTPError(resp), NoneVal)
                  /\ loc' = loc
                  /\ pc' = "done"
             ELSE /\ outcome' = outcome
                  /\ loc' = [loc EXCEPT !.miout = resp.text]
                  /\ pc' = "rq_parse"
    /\ UNCHANGED <<fnVars, prev, ctor, conn, env, call, fs, pend, errlog, parsed>>

\* return _parserslt(r.text, warn_empty, query.title)
RQ_Parse ==
    /\ pc = "rq_parse"
    /\ LET r == _parserslt(loc.miout, call.warn_empty, call.query.title, <<>>)
       IN  /\ outcome' = Outcome(r.exc, NoErr, r.val)
           /\ errlog' = errlog \o r.log
    /\ parsed' = TRUE
    /\ pc' = "done"
    /\ UNCHANGED <<fnVars, prev, ctor, conn, env, call, loc, fs, mi, pend>>

\* RemoteDBConn.listScenariosInDB, up to the request's answer.
RS_Post ==
    /\ pc = "idle"
    /\ ctor.phase \in {"validating", "constructed"}
    /\ conn.kind = "remote"
    /\ call' = [NoCall EXCEPT !.op = "listScenariosInDB"]
    /\ \E resp \in Responses(ListSources) :
          /\ mi' = [mi EXCEPT !.runs = @ + 1, !.url = RestUrl(conn),
                              !.payload = RestListQuery,
                              !.status = resp.status, !.out = resp.text]
          /\ IF RaisesForStatus(resp.status)
             THEN /\ outcome' = Outcome("HTTPError", HTTPError(resp), NoneVal)
                  /\ loc' = [loc EXCEPT !.body = RestListQuery,
                                        !.url = RestUrl(conn)]
                  /\ pc' = "done"
             ELSE /\ outcome' = outcome
                  /\ loc' = [loc EXCEPT !.body = RestListQuery,
                                        !.url = RestUrl(conn),
                                        !.miout = resp.text]
                  /\ pc' = "rs_parse"
    /\ UNCHANGED <<fnVars, prev, ctor, conn, env, fs, pend, errlog, parsed>>

\* RemoteDBConn.listScenariosInDB, the rest.
RS_Parse ==
    /\ pc = "rs_parse"
    /\ LET r == AddFqName(_parserslt(loc.miout, FALSE, <<"List Scenarios">>,
                                     <<>>))
       IN  /\ outcome' = Outcome(r.exc, NoErr, r.val)
           /\ errlog' = errlog \o r.log
    /\ parsed' = TRUE
    /\ pc' = "done"
    /\ UNCHANGED <<fnVars, prev, ctor, conn, env, call, loc, fs, mi, pend>>

\* The caller has the call's outcome; the connection is ready for the next
\* call.  The files stay as the call left them.  When the record of
\* invocations is kept, the invocation of a runQuery call is put in it.
CallEnds ==
    /\ pc = "done"
    /\ ctor.phase = "constructed"
    /\ pc' = "idle"
    /\ call' = NoCall
    /\ loc' = NoLoc
    /\ mi' = NoRun
    /\ pend' = NoPend
    /\ outcome' = NotDone
    /\ errlog' = <<>>
    /\ parsed' = FALSE
    /\ prev' = IF prev.on /\ call.op = "runQuery" /\ mi.runs > 0
               THEN [on |-> TRUE, set |-> TRUE, query |-> call.query,
                     scenarios |-> call.scenarios, regions |-> call.regions,
                     cmd |-> mi.cmd, url |-> mi.url, payload |-> mi.payload]
               ELSE prev
    /\ UNCHANGED <<fnVars, ctor, conn, env, fs>>

Next ==
    \/ \E q \in Queries, sc \in ScenarioArgs, rg \in RegionArgs, w \in BOOLEAN :
          LQ_Begin(q, sc, rg, w)
    \/ LQ_MkTemp
    \/ LQ_Write
    \/ LQ_Close
    \/ LQ_RunMi
    \/ LQ_Parse
    \/ LQ_Finally
    \/ LS_RunMi
    \/ LS_Parse
    \/ \E q \in Queries, sc \in ScenarioArgs, rg \in RegionArgs, w \in BOOLEAN :
          RQ_Begin(q, sc, rg, w)
    \/ RQ_Post
    \/ RQ_Parse
    \/ RS_Post
    \/ RS_Parse
    \/ CallEnds

Spec == CNInit /\ [][Next]_vars

\* ------------------------------------- successive runQuery calls, recorded
\* Calls of runQuery one after another on one connection (the loop of
\* importdata), with the record of the latest earlier invocation kept.

DetQueries == {q \in Queries : q.regions.t = "list"}

DetRegionArgs == {PyNone, PyList(<<>>)}

DetInit ==
    /\ conn \in {c \in Conns : c.kind = "local" => c.suppress_gabble}
    /\ env \in {e \in Envs : e.py35 /\ e.utf8}
    /\ fs = [n \in TmpNames |-> NoFile]
    /\ prev = NoPrev(TRUE)
    /\ ctor = Constructed
    /\ CallIdle
    /\ QLIdle
    /\ PRIdle
    /\ ESIdle
    /\ PBIdle
    /\ DRIdle

DetNext ==
    \/ \E q \in DetQueries, sc \in ScenarioArgs, rg \in DetRegionArgs :
          LQ_Begin(q, sc, rg, FALSE)
    \/ LQ_MkTemp
    \/ LQ_Write
    \/ LQ_Close
    \/ LQ_RunMi
    \/ LQ_Parse
    \/ LQ_Finally
    \/ \E q \in DetQueries, sc \in ScenarioArgs, rg \in DetRegionArgs :
          RQ_Begin(q, sc, rg, FALSE)
    \/ RQ_Post
    \/ RQ_Parse
    \/ CallEnds

SpecDet == DetInit /\ [][DetNext]_vars

\* ------------------------------------------- constructing a connection
\* LocalDBConn.__init__ and RemoteDBConn.__init__: the attributes are set,
\* then, with validatedb, listScenariosInDB is called on the new object and
\* its result examined.

\* os.path.join of a directory and a file name.
PathJoin(dir, file, nt) == dir \o <<IF nt THEN "\\" ELSE "/">> \o file

\* The cells of the column name.
NamesOf(df) ==
    LET np == CHOOSE j \in 1..Len(df.cols) : df.cols[j] = c_name
    IN  [i \in 1..Len(df.rows) |-> df.rows[i][np]]

\* What __init__ does with dbscen, the result of listScenariosInDB (res: an
\* exception, None or a table): [exc, msg, log, stdout].  An exception of
\* the listing propagates.  None: LocalDBConn writes its message to
\* sys.stderr and raises IOError with it; RemoteDBConn writes a line to
\* sys.stderr and raises Exception with a message built by "+" from address,
\* port, username and dbfile, which is a TypeError when port is not a
\* string.  A table: "Database scenarios: " and the names joined by ", "
\* go to sys.stdout (str.join raises TypeError for a name that is not a
\* string).
Validate(self, res, nt) ==
    IF res.exc # ""
    THEN [exc |-> res.exc, msg |-> <<>>, log |-> <<>>, stdout |-> <<>>]
    ELSE IF res.val.kind = "None"
    THEN IF self.kind = "local"
         THEN LET errmsg == <<"Failed to validate database: ">>
                            \o PathJoin(self.dbpath, self.dbfile, nt)
              IN  [exc |-> "IOError", msg |-> errmsg,
                   log |-> <<errmsg \o <<NL>>>>, stdout |-> <<>>]
         ELSE IF self.port.t # "str"
         THEN [exc |-> "TypeError",
               msg |-> <<"can only concatenate str (not \"int\") to str">>,
               log |-> <<<<"Failed to validate database.\n">>>>,
               stdout |-> <<>>]
         ELSE [exc |-> "Exception",
               msg |-> <<"Failed to validate database: ">> \o self.address
                       \o <<":">> \o self.port.v \o <<" user= ">>
                       \o self.username \o <<" file= ">> \o self.dbfile,
               log |-> <<<<"Failed to validate database.\n">>>>,
               stdout |-> <<>>]
    ELSE LET names == NamesOf(res.val)
         IN  IF \E i \in 1..Len(names) : names[i].k # "str"
             THEN [exc |-> "TypeError", msg |-> <<>>, log |-> <<>>,
                   stdout |-> <<>>]
             ELSE [exc |-> "", msg |-> <<>>, log |-> <<>>,
                   stdout |-> <<"Database scenarios: ">>
                              \o Join(<<",", " ">>,
                                      [i \in 1..Len(names) |-> names[i].s])
                              \o <<NL>>]

CTInit ==
    /\ conn \in Conns
    /\ env \in Envs
    /\ fs = [n \in TmpNames |-> NoFile]
    /\ prev = NoPrev(FALSE)
    /\ ctor = Ctor("new", NotDone, "", <<>>, <<>>)
    /\ CallIdle
    /\ QLIdle
    /\ PRIdle
    /\ ESIdle
    /\ PBIdle
    /\ DRIdle

\* __init__ up to the validation: without validatedb the object is
\* constructed as it is.
CT_Begin(validatedb) ==
    /\ ctor.phase = "new"
    /\ pc = "idle"
    /\ ctor' = [ctor EXCEPT !.phase = IF validatedb THEN "validating"
                                      ELSE "constructed"]
    /\ UNCHANGED <<fnVars, prev, conn, env, pc, call, loc, fs, mi, pend,
                   outcome, errlog, parsed>>

\* __init__ from the return of self.listScenariosInDB() on.
CT_Validate ==
    /\ ctor.phase = "validating"
    /\ pc = "done"
    /\ LET r == Validate(conn, outcome, env.nt)
       IN  /\ ctor' = Ctor(IF r.exc = "" THEN "constructed" ELSE "failed",
                           outcome, r.exc, r.msg, r.stdout)
           /\ errlog' = errlog \o r.log
    /\ pc' = "idle"
    /\ call' = NoCall
    /\ loc' = NoLoc
    /\ mi' = NoRun
    /\ pend' = NoPend
    /\ outcome' = NotDone
    /\ parsed' = FALSE
    /\ UNCHANGED <<fnVars, prev, conn, env, fs>>

CTNext ==
    \/ \E validatedb \in BOOLEAN : CT_Begin(validatedb)
    \/ LS_RunMi
    \/ LS_Parse
    \/ RS_Post
    \/ RS_Parse
    \/ CT_Validate

SpecCtor == CTInit /\ [][CTNext]_vars

\* ----------------------------------------------------------- importdata
\* importdata(dbspec, queries, scenarios, regions, warn_empty) with dbspec a
\* connection and queries a list of Query objects: one runQuery call for
\* each query of the list, in its order, the results put in a dictionary
\* under the queries' titles.  (A dbspec that is a string is made a
\* LocalDBConn first, SpecCtor; a queries that is a string is read by
\* parse_batch_query first, SpecBatch.)

Catalogs == UNION {[1..n -> Queries] : n \in 0..MaxCatalog}

\* d[k] = v on a dictionary: the value is replaced under a key the
\* dictionary has, and a new key is added after the others.
DictSet(d, k, v) ==
    IF \E j \in DOMAIN d : d[j].k = k
    THEN [j \in DOMAIN d |-> IF d[j].k = k THEN [k |-> k, v |-> v] ELSE d[j]]
    ELSE Append(d, [k |-> k, v |-> v])

IMInit ==
    /\ conn \in {c \in Conns : c.kind = "local" => c.suppress_gabble}
    /\ env \in {e \in Envs : e.py35 /\ ~e.nt}
    /\ fs = [n \in TmpNames |-> NoFile]
    /\ prev = NoPrev(FALSE)
    /\ ctor = Constructed
    /\ imp = [NoImport EXCEPT !.phase = "new"]
    /\ PoolIdle
    /\ CallIdle
    /\ QLIdle
    /\ PRIdle
    /\ ESIdle
    /\ PBIdle

\* importdata, up to the loop: the connection and the list of queries are
\* taken as given and the dictionary is empty.
IM_Begin(qs, sc, rg, w) ==
    /\ imp.phase = "new"
    /\ pc = "idle"
    /\ imp' = [imp EXCEPT !.phase = "loop", !.queries = qs, !.i = 1,
                          !.scenarios = sc, !.regions = rg,
                          !.warn_empty = w]
    /\ UNCHANGED <<qlVars, prVars, esVars, pbVars, plVars, cnVars>>

\* A plausible slip: the region list is not handed on to runQuery.
IM_RunQueryWithoutRegions ==
    /\ imp.phase = "loop"
    /\ imp.i <= Len(imp.queries)
    /\ \/ LQ_Begin(imp.queries[imp.i], imp.scenarios, PyNone, imp.warn_empty)
       \/ RQ_Begin(imp.queries[imp.i], imp.scenarios, PyNone, imp.warn_empty)

\* qr = dbcon.runQuery(query, scenarios, regions, warn_empty), entered.
IM_RunQuery ==
    /\ imp.phase = "loop"
    /\ imp.i <= Len(imp.queries)
    /\ \/ LQ_Begin(imp.queries[imp.i], imp.scenarios, imp.regions,
                   imp.warn_empty)
       \/ RQ_Begin(imp.queries[imp.i], imp.scenarios, imp.regions,
                   imp.warn_empty)

\* The runQuery call has ended: its exception leaves importdata, or its
\* value is put in the dictionary under the query's title and the loop
\* goes on to the next query.
IM_Store ==
    /\ imp.phase = "loop"
    /\ pc = "done"
    /\ LET ended == [query |-> call.query, scenarios |-> call.scenarios,
                     regions |-> call.regions,
                     warn_empty |-> call.warn_empty, out |-> mi.out,
                     exc |-> outcome.exc, val |-> outcome.val]
       IN  IF outcome.exc # ""
           THEN imp' = [imp EXCEPT !.phase = "raised", !.exc = outcome.exc,
                                   !.calls = Append(@, ended)]
           ELSE imp' = [imp EXCEPT
                          !.rslts = DictSet(@, call.query.title, outcome.val),
                          !.calls = Append(@, ended),
                          !.i = @ + 1]
    /\ pc' = "idle"
    /\ call' = NoCall
    /\ loc' = NoLoc
    /\ mi' = NoRun
    /\ pend' = NoPend
    /\ outcome' = NotDone
    /\ errlog' = <<>>
    /\ parsed' = FALSE
    /\ UNCHANGED <<qlVars, prVars, esVars, pbVars, plVars, prev, ctor, conn, env, fs>>

\* return queryrslts
IM_Return ==
    /\ imp.phase = "loop"
    /\ pc = "idle"
    /\ imp.i > Len(imp.queries)
    /\ imp' = [imp EXCEPT !.phase = "returned"]
    /\ UNCHANGED <<qlVars, prVars, esVars, pbVars, plVars, cnVars>>

IMNext ==
    \/ \E qs \in Catalogs, sc \in ScenarioArgs,
          rg \in {PyNone, PyStr(s_USA)}, w \in BOOLEAN :
          IM_Begin(qs, sc, rg, w)
    \/ IM_RunQuery
    \/ LQ_MkTemp
    \/ LQ_Write
    \/ LQ_Close
    \/ LQ_RunMi
    \/ LQ_Parse
    \/ LQ_Finally
    \/ RQ_Post
    \/ RQ_Parse
    \/ IM_Store
    \/ IM_Return

SpecImport == IMInit /\ [][IMNext]_vars

\* ------------------------------------------------------ the batch driver
\* execute(conn, query_path, output_path, force) of src/gcamreader/cli.py:
\* one task per query of the catalog, handed to a pool of worker processes
\* (pool.map(save, queries)).  Each task is a save call in a process of its
\* own, with its own copy of the connection and the query; the processes
\* share the file system only.  The tasks are taken one to a chunk (a
\* catalog of no more than four queries per worker process), so that they
\* may run in any interleaving.

UpperCase ==
    <<"A", "B", "C", "D", "E", "F", "G", "H", "I", "J", "K", "L", "M", "N",
      "O", "P", "Q", "R", "S", "T", "U", "V", "W", "X", "Y", "Z">>

LowerCase ==
    <<"a", "b", "c", "d", "e", "f", "g", "h", "i", "j", "k", "l", "m", "n",
      "o", "p", "q", "r", "s", "t", "u", "v", "w", "x", "y", "z">>

\* str.lower()
Lower(s) ==
    [i \in DOMAIN s |->
        IF \E u \in DOMAIN UpperCase : UpperCase[u] = s[i]
        THEN LowerCase[CHOOSE u \in DOMAIN UpperCase : UpperCase[u] = s[i]]
        ELSE s[i]]

\* output_path / f"{str(query.title).replace(' ', '_').lower()}.csv"
OutputPath(output_path, title) ==
    output_path \o <<"/">> \o Lower(Replace(title, <<" ">>, <<"_">>))
    \o <<".csv">>

t_A_b == <<"A", " ", "b">>

t_a_b == <<"a", "_", "b">>

\* The queries of the catalogs: three titles, two of which differ in a
\* letter's case and in a blank for an underscore.
PoolQueries ==
    { [title |-> t_A_b, querystr |-> <<"<q title=\"A b\">", NL, "</q>">>,
       regions |-> PyNone],
      [title |-> t_a_b, querystr |-> <<"<q title=\"a_b\">", "</q>">>,
       regions |-> PyList(<<s_USA>>)],
      [title |-> t_title,
       querystr |-> <<"<landQuery title=\"land\">", NL, "<q/>", NL,
                      "</landQuery>", NL>>,
       regions |-> PyNone] }

\* The catalogs: up to MaxTasks queries, their titles pairwise distinct.
PoolCatalogs ==
    {qs \in UNION {[1..n -> PoolQueries] : n \in 1..MaxTasks} :
        \A j, k \in DOMAIN qs : qs[j].title = qs[k].title => j = k}

d_out == <<"out">>

OutPaths == {OutputPath(d_out, q.title) : q \in PoolQueries}

\* A table an output file holds from an earlier batch.
OldOut == [exists |-> TRUE, df |-> DF(<<c_region>>, <<>>), by |-> 0]

\* What the engine prints in a batch: nothing, or a table to aggregate.
PoolSources ==
    {src \in RunSources : ~src.extra /\ c_values \notin Range(src.header)}

PoolResponses == {r \in Responses(PoolSources) : r.status \in {200, 500}}

\* A task before its save call has begun.  rq counts the runQuery calls,
\* failed tells that the engine run failed, read is what the engine found
\* under the file name on its command line, res how runQuery ended, echo
\* the messages of the save call.
NewJob ==
    [pc |-> "start", tmp |-> <<>>, script |-> <<>>, cmd |-> <<>>, rq |-> 0,
     failed |-> FALSE, read |-> [done |-> FALSE, ok |-> FALSE, text |-> <<>>],
     res |-> [exc |-> "", val |-> NoneVal], echo |-> <<>>]

Echo(what, text) == [what |-> what, text |-> text]

\* What no step of a task changes.
plFrame ==
    <<qlVars, prVars, esVars, pbVars, imp, conn, env, pc, call, loc, mi, pend,
      outcome, errlog, parsed, prev, ctor>>

PLInit ==
    /\ conn \in {c \in Conns :
                    IF c.kind = "local" THEN c.suppress_gabble
                    ELSE c.port.t = "str"}
    /\ env = [py35 |-> TRUE, nt |-> FALSE, utf8 |-> TRUE]
    /\ fs = [n \in TmpNames |-> NoFile]
    /\ prev = NoPrev(FALSE)
    /\ ctor = Constructed
    /\ imp = NoImport
    /\ batch = [NoBatch EXCEPT !.phase = "new"]
    /\ job = <<>>
    /\ outdir \in {[p \in OutPaths |-> NoOut], [p \in OutPaths |-> OldOut]}
    /\ CallIdle
    /\ QLIdle
    /\ PRIdle
    /\ ESIdle
    /\ PBIdle

\* execute, up to pool.map: the catalog is read and one task made for each
\* query, with the path of its output file.
EX_Begin(qs, force) ==
    /\ batch.phase = "new"
    /\ batch' = [batch EXCEPT
                   !.phase = "mapping", !.force = force,
                   !.tasks = [j \in DOMAIN qs |->
                                 [query |-> qs[j],
                                  save_to |-> OutputPath(d_out, qs[j].title)]],
                   !.echo = <<Echo("parsing", <<>>)>>]
    /\ job' = [j \in DOMAIN qs |-> NewJob]
    /\ UNCHANGED <<plFrame, fs, outdir>>

Running(j) == batch.phase = "mapping" /\ j \in DOMAIN job

\* A plausible slip: the force flag read the wrong way round, an existing
\* file skipped only when force is set.
SV_CheckForceInverted(j) ==
    /\ Running(j)
    /\ job[j].pc = "start"
    /\ LET t == batch.tasks[j]
           there == outdir[t.save_to].exists
           said == IF there THEN <<Echo("output exists", t.save_to)>>
                   ELSE <<>>
       IN  IF there /\ batch.force
           THEN job' = [job EXCEPT
                          ![j].pc = "end",
                          ![j].echo = said \o <<Echo("skipping", t.save_to)>>]
           ELSE job' = [job EXCEPT
                          ![j].pc = IF conn.kind = "local" THEN "mktemp"
                                    ELSE "post",
                          ![j].rq = @ + 1,
                          ![j].script =
                              IF conn.kind = "local"
                              THEN LocalScript(t.query, PyNone, PyNone)
                              ELSE RestQuery(t.query, PyNone, PyNone),
                          ![j].echo = said \o <<Echo("running", t.query.title)>>]
    /\ UNCHANGED <<plFrame, batch, fs, outdir>>

\* save, up to the entry of runQuery: an output file that exists is
\* skipped unless force is set; otherwise conn.runQuery(query) is called,
\* with no scenarios, no regions and warn_empty at its default, and builds
\* its script or its request body.
SV_Check(j) ==
    /\ Running(j)
    /\ job[j].pc = "start"
    /\ LET t == batch.tasks[j]
           there == outdir[t.save_to].exists
           said == IF there THEN <<Echo("output exists", t.save_to)>>
                   ELSE <<>>
       IN  IF there /\ ~batch.force
           THEN job' = [job EXCEPT
                          ![j].pc = "end",
                          ![j].echo = said \o <<Echo("skipping", t.save_to)>>]
           ELSE job' = [job EXCEPT
                          ![j].pc = IF conn.kind = "local" THEN "mktemp"
                                    ELSE "post",
                          ![j].rq = @ + 1,
                          ![j].script =
                              IF conn.kind = "local"
                              THEN LocalScript(t.query, PyNone, PyNone)
                              ELSE RestQuery(t.query, PyNone, PyNone),
                          ![j].echo = said \o <<Echo("running", t.query.title)>>]
    /\ UNCHANGED <<plFrame, batch, fs, outdir>>

\* runQuery of the task: NamedTemporaryFile and the command line.
SV_MkTemp(j) ==
    /\ Running(j)
    /\ job[j].pc = "mktemp"
    /\ \E n \in FreshNames(fs) :
          /\ fs' = [fs EXCEPT ![n] = [exists |-> TRUE, open |-> TRUE,
                                      text |-> <<>>]]
          /\ job' = [job EXCEPT ![j].pc = "write", ![j].tmp = n,
                                ![j].cmd = LocalCmd(conn, n)]
    /\ UNCHANGED <<plFrame, batch, outdir>>

\* runQuery of the task: the script written to the file of its name.
SV_Write(j) ==
    /\ Running(j)
    /\ job[j].pc = "write"
    /\ fs' = [fs EXCEPT ![job[j].tmp].text = job[j].script]
    /\ job' = [job EXCEPT ![j].pc = "close"]
    /\ UNCHANGED <<plFrame, batch, outdir>>

\* runQuery of the task: the file closed.
SV_Close(j) ==
    /\ Running(j)
    /\ job[j].pc = "close"
    /\ fs' = [fs EXCEPT ![job[j].tmp].open = FALSE]
    /\ job' = [job EXCEPT ![j].pc = "runmi"]
    /\ UNCHANGED <<plFrame, batch, outdir>>

\* runQuery of the task: the engine runs on the file its command line
\* names (a file that is not there makes it fail), and its output is
\* parsed.
SV_RunMi(j) ==
    /\ Running(j)
    /\ job[j].pc = "runmi"
    /\ LET f == fs[job[j].tmp]
           q == batch.tasks[j].query
       IN  \E proc \in EngineRuns(PoolSources) :
              /\ f.exists \/ proc.rc # 0
              /\ LET r == _runmi(job[j].cmd, q.querystr, proc, env.py35)
                     p == _parserslt(r.miout, TRUE, q.title, r.mierr)
                 IN  job' = [job EXCEPT
                               ![j].pc = "finally",
                               ![j].failed = proc.rc # 0,
                               ![j].read = [done |-> TRUE, ok |-> f.exists,
                                            text |-> f.text],
                               ![j].res = IF r.exc # ""
                                          THEN [exc |-> r.exc,
                                                val |-> NoneVal]
                                          ELSE [exc |-> p.exc,
                                                val |-> p.val]]
    /\ UNCHANGED <<plFrame, batch, fs, outdir>>

\* runQuery of the task: the finally block removes the file of the task's
\* own name.
SV_Finally(j) ==
    /\ Running(j)
    /\ job[j].pc = "finally"
    /\ LET rm == OsRemove(fs, job[j].tmp, env.nt)
       IN  /\ fs' = rm.files
           /\ job' = [job EXCEPT
                        ![j].pc = "store",
                        ![j].res = IF rm.exc # ""
                                   THEN [exc |-> rm.exc, val |-> NoneVal]
                                   ELSE @]
    /\ UNCHANGED <<plFrame, batch, outdir>>

\* runQuery of the task on a remote connection: the request, its status
\* checked, its text parsed.
SV_Post(j) ==
    /\ Running(j)
    /\ job[j].pc = "post"
    /\ \E resp \in PoolResponses :
          LET q == batch.tasks[j].query
              p == _parserslt(resp.text, TRUE, q.title, <<>>)
          IN  job' = [job EXCEPT
                        ![j].pc = "store",
                        ![j].failed = RaisesForStatus(resp.status),
                        ![j].res = IF RaisesForStatus(resp.status)
                                   THEN [exc |-> "HTTPError",
                                         val |-> NoneVal]
                                   ELSE [exc |-> p.exc, val |-> p.val]]
    /\ UNCHANGED <<plFrame, batch, fs, outdir>>

\* save, after runQuery: a CalledProcessError is caught and reported, any
\* other exception leaves save; None is reported as empty; a table is
\* written to the output file.
SV_Store(j) ==
    /\ Running(j)
    /\ job[j].pc = "store"
    /\ LET t == batch.tasks[j]
           res == job[j].res
       IN  IF res.exc = "CalledProcessError"
           THEN /\ job' = [job EXCEPT
                             ![j].pc = "end",
                             ![j].echo = Append(@, Echo("failed",
                                                        t.query.title))]
                /\ outdir' = outdir
           ELSE IF res.exc # ""
           THEN /\ job' = [job EXCEPT ![j].pc = "raised"]
                /\ outdir' = outdir
           ELSE IF res.val = NoneVal
           THEN /\ job' = [job EXCEPT
                             ![j].pc = "end",
                             ![j].echo = Append(@, Echo("empty",
                                                        t.query.title))]
                /\ outdir' = outdir
           ELSE /\ job' = [job EXCEPT
                             ![j].pc = "end",
                             ![j].echo = Append(@, Echo("saved", t.save_to))]
                /\ outdir' = [outdir EXCEPT
                                ![t.save_to] = [exists |-> TRUE,
                                                df |-> res.val, by |-> j]]
    /\ UNCHANGED <<plFrame, batch, fs>>

\* pool.map has every task's result: execute reports completion.
EX_Complete ==
    /\ batch.phase = "mapping"
    /\ \A j \in DOMAIN job : job[j].pc = "end"
    /\ batch' = [batch EXCEPT !.phase = "complete",
                              !.echo = Append(@, Echo("extract complete",
                                                      <<>>))]
    /\ UNCHANGED <<plFrame, job, fs, outdir>>

\* pool.map raises the exception of a task that raised, once every task
\* has ended or, with an older multiprocessing, as soon as one has raised;
\* leaving the with block terminates the pool and the tasks still running
\* with it.  execute ends with that exception.
EX_MapRaises ==
    /\ batch.phase = "mapping"
    /\ \E j \in DOMAIN job :
          /\ job[j].pc = "raised"
          /\ batch' = [batch EXCEPT !.phase = "raised",
                                    !.exc = job[j].res.exc]
    /\ job' = [j \in DOMAIN job |->
                  IF job[j].pc \in {"end", "raised"} THEN job[j]
                  ELSE [job[j] EXCEPT !.pc = "killed"]]
    /\ UNCHANGED <<plFrame, fs, outdir>>

PLNext ==
    \/ \E qs \in PoolCatalogs, force \in BOOLEAN : EX_Begin(qs, force)
    \/ \E j \in 1..MaxTasks : SV_Check(j)
    \/ \E j \in 1..MaxTasks : SV_MkTemp(j)
    \/ \E j \in 1..MaxTasks : SV_Write(j)
    \/ \E j \in 1..MaxTasks : SV_Close(j)
    \/ \E j \in 1..MaxTasks : SV_RunMi(j)
    \/ \E j \in 1..MaxTasks : SV_Finally(j)
    \/ \E j \in 1..MaxTasks : SV_Post(j)
    \/ \E j \in 1..MaxTasks : SV_Store(j)
    \/ EX_Complete
    \/ EX_MapRaises

SpecPool == PLInit /\ [][PLNext]_vars

\* ==================================================================== claims

\* Where item i of the list l starts in the literal: the position just before
\* its opening quote.
RECURSIVE Off(_, _)
Off(l, i) == IF i = 1 THEN 1 ELSE Off(l, i - 1) + Len(l[i - 1]) + 3

\* out is "(" then the items of l in order, each between single quotes, with
\* a comma between neighbours, then ")".
IsQuotedList(out, l) ==
    /\ Len(out) = Off(l, Len(l) + 1)
    /\ out[1] = "("
    /\ \A i \in 1..Len(l) :
          LET o == Off(l, i)
              n == Len(l[i])
          IN  /\ out[o + 1] = "'"
              /\ SubSeq(out, o + 2, o + 1 + n) = l[i]
              /\ out[o + 2 + n] = "'"
              /\ out[o + 3 + n] = (IF i < Len(l) THEN "," ELSE ")")

\* C1: _querylist of a non-empty list of strings is "(" followed by the items,
\* each in single quotes, joined by commas in input order, followed by ")";
\* of None and of the empty list it is exactly "()".
C1_QuerylistFormat ==
    qlRet.done /\ qlItems.t # "str" =>
        IF qlItems.t = "None" \/ Len(qlItems.v) = 0
        THEN qlRet.v = <<"(", ")">>
        ELSE IsQuotedList(qlRet.v, qlItems.v)

C1_Witness ==
    /\ qlRet.done
    /\ qlItems.t = "list"
    /\ Len(qlItems.v) = 2
    /\ Len(qlItems.v[1]) > 0

\* C2 as stated: for every bare string s, _querylist(s) is _querylist([s]).
C2_BareStringAsList ==
    qlRet.done /\ qlItems.t = "str" =>
        qlRet.v = _querylist(PyList(<<qlItems.v>>))

\* C2, amended: for every non-empty bare string s, _querylist(s) is
\* _querylist([s]), that is "('" + s + "')"; the empty string gives "()",
\* which is not _querylist([""]) = "('')".
C2_NonEmptyBareStringAsList ==
    qlRet.done /\ qlItems.t = "str" =>
        IF Len(qlItems.v) > 0
        THEN /\ qlRet.v = <<"(", "'">> \o qlItems.v \o <<"'", ")">>
             /\ qlRet.v = _querylist(PyList(<<qlItems.v>>))
        ELSE /\ qlRet.v = <<"(", ")">>
             /\ _querylist(PyList(<<qlItems.v>>)) = <<"(", "'", "'", ")">>

C2_Witness == qlRet.done /\ qlItems.t = "str" /\ Len(qlItems.v) = 2

\* out is the list literal of the Python value x.
IsLit(out, x) ==
    IF x.t = "None" \/ Len(x.v) = 0 THEN out = <<"(", ")">>
    ELSE IF x.t = "str" THEN out = <<"(", "'">> \o x.v \o <<"'", ")">>
    ELSE IsQuotedList(out, x.v)

EndsWith(s, suffix) ==
    /\ Len(s) >= Len(suffix)
    /\ SubSeq(s, Len(s) - Len(suffix) + 1, Len(s)) = suffix

\* The payload runQuery builds on this connection for the call's query and
\* scenarios and the regions argument rg.
PayloadFor(rg) ==
    IF conn.kind = "local"
    THEN LocalScript(call.query, call.scenarios, rg)
    ELSE RestQuery(call.query, call.scenarios, rg)

\* A runQuery call has built its payload.
PayloadBuilt == call.op = "runQuery" /\ loc.body # <<>>

\* C3: in runQuery of both connections the region list sent is the regions
\* argument whenever it is not None (so an empty list sends "()" whatever the
\* query's own filter), otherwise the query's own filter, otherwise "()";
\* and for a query with a filter of its own, regions=None and regions=[]
\* give different payloads.
C3_RegionListSent ==
    PayloadBuilt =>
        LET chosen == IF call.regions.t # "None" THEN call.regions
                      ELSE call.query.regions
            other == IF call.regions.t = "None" THEN PyList(<<>>) ELSE PyNone
        IN  /\ IsLit(loc.xqrgn, chosen)
            /\ loc.body = PayloadFor(call.regions)
            /\ mi.runs > 0 => mi.payload = loc.body
            /\ conn.kind = "local" =>
                  EndsWith(loc.body, <<",">> \o loc.xqrgn \o <<")">>)
            /\ conn.kind = "remote" =>
                  Contains(loc.body, <<",", " ">> \o loc.xqrgn
                                     \o <<")", " ">> \o CdataClose
                                     \o <<"</rest:text>">>)
            /\ (call.query.regions.t = "list"
                    /\ call.regions \in {PyNone, PyList(<<>>)})
                  => loc.body # PayloadFor(other)

C3_Witness ==
    /\ PayloadBuilt
    /\ mi.runs = 1
    /\ call.regions = PyList(<<>>)
    /\ call.query.regions = PyList(<<s_USA>>)

\* Whether a cell of the returned table is the value of a cell text.
Matches(cell, text) ==
    \/ cell.k = "nan" /\ text \in NaValues
    \/ cell.k = "num" /\ IsNumeral(text) /\ cell.n = ParseInt(text)
    \/ cell.k = "str" /\ text \notin NaValues /\ cell.s = text

HasValueCol(src) == Positions(src.header, value_col_name) # {}

\* The positions of the header's columns other than value.
KeyPos(src) ==
    SelectSeq([j \in 1..Len(src.header) |-> j],
              LAMBDA j : src.header[j] # value_col_name)

\* Sum of the value cells of the source rows with indices in I.
RECURSIVE SrcSum(_, _)
SrcSum(src, I) ==
    IF I = {} THEN 0
    ELSE LET i == CHOOSE x \in I : TRUE
             vp == CHOOSE j \in 1..Len(src.header) :
                       src.header[j] = value_col_name
         IN  ParseInt(src.rows[i][vp]) + SrcSum(src, I \ {i})

\* The position in the returned table of the column named name.
ColOf(df, name) == CHOOSE j \in 1..Len(df.cols) : df.cols[j] = name

\* Row g of the returned table is the aggregate of the source rows whose key
\* texts are combo.
IsAggregateOf(df, g, src, combo) ==
    LET kp == KeyPos(src)
    IN  /\ \A j \in 1..Len(kp) :
              /\ Positions(df.cols, src.header[kp[j]]) # {}
              /\ Matches(df.rows[g][ColOf(df, src.header[kp[j]])], combo[j])
        /\ Positions(df.cols, value_col_name) # {}
        /\ df.rows[g][ColOf(df, value_col_name)] =
              Num(SrcSum(src, {i \in 1..Len(src.rows) :
                                  RowKey(src.rows[i], kp) = combo}))

\* The table df has exactly one row for each key combination of the source,
\* holding the sum of that combination's values.
IsAggregation(df, src) ==
    LET combos == {RowKey(src.rows[i], KeyPos(src)) : i \in 1..Len(src.rows)}
    IN  /\ Len(df.rows) = Cardinality(combos)
        /\ \A c \in combos :
              \E g \in 1..Len(df.rows) : IsAggregateOf(df, g, src, c)

\* C4 as stated: when the parsed CSV has a column named value, the returned
\* table has exactly one row for each distinct combination of the other
\* columns' values in the input, holding the sum of value over the input rows
\* with that combination.
C4_AggregatesEveryCombination ==
    prRet.done /\ HasValueCol(prSrc) /\ ~prSrc.extra =>
        /\ prRet.exc = ""
        /\ prRet.val.kind = "df"
        /\ IsAggregation(prRet.val, prSrc)

\* C5 as stated: when the parsed CSV has no column literally named value,
\* whatever the other columns are called, the parsed table is returned as it
\* is: same columns, same rows, same order, and no error.
C5_NoValueColumnUnmodified ==
    prRet.done /\ Len(prSrc.header) > 0 /\ ~HasValueCol(prSrc) /\ ~prSrc.extra =>
        /\ prRet.exc = ""
        /\ prRet.val.kind = "df"
        /\ prRet.val.cols = prSrc.header
        /\ Len(prRet.val.rows) = Len(prSrc.rows)
        /\ \A i \in 1..Len(prSrc.rows) : \A j \in 1..Len(prSrc.header) :
              Matches(prRet.val.rows[i][j], prSrc.rows[i][j])

\* C6 as stated: on empty engine output _parserslt returns None and never
\* raises; with warn_empty it first writes a diagnostic, without it it writes
\* nothing.
C6_EmptyOutputReturnsNone ==
    prRet.done /\ prTxt = <<>> =>
        /\ prRet.exc = ""
        /\ prRet.val = NoneVal
        /\ prWarn => Len(prRet.log) > 0
        /\ ~prWarn => prRet.log = <<>>

\* C7 as stated, in its case beyond the empty string: on an engine output
\* with ragged rows, which the CSV reader rejects, _parserslt returns None and
\* does not raise.
C7_UnparseableReturnsNone ==
    prRet.done /\ prSrc.extra =>
        /\ prRet.exc = ""
        /\ prRet.val = NoneVal

\* A local engine run of the call in progress has ended with a non-zero
\* status.
LocalRunFailed == conn.kind = "local" /\ mi.runs > 0 /\ mi.rc # 0

\* C8: a local engine run that exits with a non-zero status, in runQuery or
\* in listScenariosInDB, ends with an error raised to the caller: no table
\* and no None is returned, and the result parser is never applied to that
\* run's output.
C8_NonZeroExitRaises ==
    LocalRunFailed =>
        /\ ~parsed
        /\ pc \in {"lq_finally", "done"}
        /\ pc = "lq_finally" => pend.set /\ pend.exc # ""
        /\ pc = "done" => outcome.done /\ outcome.exc # ""

C8_Witness ==
    LocalRunFailed /\ pc = "done" /\ call.op = "listScenariosInDB"

\* The texts an error object holds.
HeldTexts(e) ==
    Range(e.cmd) \cup {x.v : x \in {y \in {e.output, e.stderr} : y.t = "str"}}

C10_TempFileRemoved ==
    pc = "done" /\ conn.kind = "local" /\ call.op = "runQuery" =>
        ~fs[loc.tmp].exists

\* The server has answered the call in progress with a status outside
\* 200..299.
RemoteNon2xx ==
    conn.kind = "remote" /\ mi.runs > 0 /\ ~(200 <= mi.status /\ mi.status < 300)

\* C11 as stated: in runQuery and listScenariosInDB of a remote connection,
\* every response whose status is not 2xx ends with an error raised to the
\* caller, and its body is never passed to the result parser nor returned as
\* a table or as None.
C11_Non2xxRaises ==
    RemoteNon2xx =>
        /\ ~parsed
        /\ pc = "done"
        /\ outcome.done
        /\ outcome.exc = "HTTPError"

\* The index at which pat first occurs in s, 0 when it does not occur.
FirstAt(s, pat) ==
    IF Contains(s, pat)
    THEN CHOOSE i \in 1..(Len(s) - Len(pat) + 1) :
            /\ SubSeq(s, i, i + Len(pat) - 1) = pat
            /\ \A k \in 1..(i - 1) : SubSeq(s, k, k + Len(pat) - 1) # pat
    ELSE 0

NotCdata == [ok |-> FALSE, text |-> <<>>]

\* What an XML parser reads from t as a run of CDATA sections: each section
\* opens with "<![CDATA[" and ends at the first "]]>" after it; the sections
\* must follow one another with nothing between them and use up t.  The
\* text read is the sections' contents, concatenated.
RECURSIVE CdataSections(_)
CdataSections(t) ==
    IF Len(t) = 0 THEN [ok |-> TRUE, text |-> <<>>]
    ELSE IF Head(t) # CdataOpen THEN NotCdata
    ELSE LET rest == Tail(t)
             i == FirstAt(rest, CdataClose)
         IN  IF i = 0 THEN NotCdata
             ELSE LET r == CdataSections(SubSeq(rest, i + 3, Len(rest)))
                  IN  IF r.ok
                      THEN [ok |-> TRUE, text |-> SubSeq(rest, 1, i - 1) \o r.text]
                      ELSE NotCdata

\* The contents of the request body's rest:text element.
RestTextOf(body) ==
    SubSeq(body, IndexOf(body, "<rest:text>") + 1,
           IndexOf(body, "</rest:text>") - 1)

\* C12: for every script text, with the closing delimiter "]]>" in it any
\* number of times, adjacent or overlapping with "]" characters, the escaped
\* text between "<![CDATA[" and the final "]]>" reads as CDATA sections up to
\* that final delimiter with nothing outside them, and their concatenation
\* is exactly the script.  In the request body the escaped text stands
\* between two joining spaces, which the sections carry as well.
C12_CdataEscapeLossless ==
    esRet.done =>
        /\ CdataSections(<<CdataOpen>> \o esRet.escaped \o CdataClose)
              = [ok |-> TRUE, text |-> esTxt]
        /\ CdataSections(RestTextOf(esRet.body))
              = [ok |-> TRUE, text |-> <<" ">> \o esTxt \o <<" ">>]

C12_Witness ==
    /\ esRet.done
    /\ esTxt = <<"]", "]", ">", "]", "]", ">">>
    /\ esRet.escaped # esTxt

\* A runQuery call has invoked the engine.
QuerySent == call.op = "runQuery" /\ mi.runs > 0

\* The script text the engine gets: on a local connection the text of the
\* file the command line names; on a remote one what the server reads from
\* the CDATA sections of the request's rest:text element, between the two
\* joining spaces.
SentScript ==
    IF conn.kind = "local" THEN mi.payload
    ELSE LET t == CdataSections(RestTextOf(mi.payload)).text
         IN  SubSeq(t, 2, Len(t) - 1)

\* The text s without its newline characters.
WithoutNewlines(s) == SelectSeq(s, LAMBDA c : c # NL)

\* C13 as stated: in every runQuery invocation, local and remote, the script
\* text sent holds the query body with every newline removed, and it is the
\* same script text on both connection variants for the same query,
\* scenarios and regions.
C13_SameStrippedScript ==
    QuerySent =>
        /\ NL \notin Range(SentScript)
        /\ SentScript =
              <<s_import, s_call>> \o WithoutNewlines(call.query.querystr)
                  \o <<",">> \o loc.xqscen \o <<",">> \o loc.xqrgn \o <<")">>

\* C13, amended: on a local connection the script text sent is the import
\* clause, then mi:runMIQuery( query body without its newlines , scenario
\* list , region list ) with bare commas, and holds no newline; on a remote
\* connection it is the same with the query body as it is, newlines kept,
\* and a comma and a space between the arguments.  On both, the two lists
\* are the literals of the scenarios and of the regions chosen.
C13_ScriptPerVariant ==
    QuerySent =>
        /\ IsLit(loc.xqscen, call.scenarios)
        /\ IsLit(loc.xqrgn, IF call.regions.t # "None" THEN call.regions
                            ELSE call.query.regions)
        /\ conn.kind = "local" =>
              /\ SentScript =
                    <<s_import, s_call>>
                        \o WithoutNewlines(call.query.querystr)
                        \o <<",">> \o loc.xqscen \o <<",">> \o loc.xqrgn
                        \o <<")">>
              /\ NL \notin Range(SentScript)
        /\ conn.kind = "remote" =>
              /\ SentScript =
                    <<s_import, s_call>> \o call.query.querystr
                        \o <<",", " ">> \o loc.xqscen \o <<",", " ">>
                        \o loc.xqrgn \o <<")">>
              /\ NL \in Range(call.query.querystr) => NL \in Range(SentScript)

C13_Witness ==
    /\ QuerySent
    /\ conn.kind = "local"
    /\ NL \in Range(call.query.querystr)
    /\ call.scenarios # PyNone

\* The call in progress has invoked the engine for the same query, scenarios
\* and regions as the latest earlier runQuery call on this connection.
SameInputsAgain ==
    /\ QuerySent
    /\ prev.set
    /\ prev.query = call.query
    /\ prev.scenarios = call.scenarios
    /\ prev.regions = call.regions

\* C14 as stated: two runQuery calls on the same connection with identical
\* query, scenarios and regions produce identical invocation payloads: the
\* engine command line or the request (URL and body), and the script text.
C14_IdenticalPayloads ==
    SameInputsAgain =>
        /\ mi.cmd = prev.cmd
        /\ mi.url = prev.url
        /\ mi.payload = prev.payload

\* All the words of a command line but the last.
ButLast(cmd) == SubSeq(cmd, 1, Len(cmd) - 1)

\* C14, amended: two runQuery calls on the same connection with identical
\* query, scenarios and regions produce the same script text and, on a remote
\* connection, the same URL and request body; on a local connection the two
\* command lines are the same but for their last word, which is the name of
\* the call's own temporary file.
C14_IdenticalButTempName ==
    SameInputsAgain =>
        /\ mi.payload = prev.payload
        /\ mi.url = prev.url
        /\ Len(mi.cmd) = Len(prev.cmd)
        /\ ButLast(mi.cmd) = ButLast(prev.cmd)
        /\ conn.kind = "local" =>
              /\ mi.cmd[Len(mi.cmd)] = loc.tmp
              /\ prev.cmd[Len(prev.cmd)] \in TmpNames
        /\ conn.kind = "remote" => mi.cmd = <<>> /\ mi.url # <<>>

C14_Witness ==
    /\ SameInputsAgain
    /\ conn.kind = "local"
    /\ mi.cmd # prev.cmd

c_fullyQualifiedName == <<"fullyQualifiedName">>

\* A listScenariosInDB call has ended after the engine or the server gave
\* its answer to the introspection query.
ListingEnded ==
    /\ pc = "done"
    /\ call.op = "listScenariosInDB"
    /\ mi.runs > 0
    /\ IF conn.kind = "local" THEN mi.rc = 0 ELSE mi.status = 200

\* The text of a cell.
TextOf(cell) == IF cell.k = "str" THEN cell.s ELSE <<>>

\* C15 as stated: in listScenariosInDB, local and remote, when the
\* introspection query yields a table the returned table has every original
\* row and column and, after them, a derived column (fullyQualifiedName;
\* the code names it fqName, and either name is taken here) holding in each
\* row that row's name, a space and that row's date; when the query yields
\* None, None is returned and no column is added.
C15_FullyQualifiedNameAdded ==
    ListingEnded =>
        LET base == read_csv(mi.out)
        IN  IF base.exc = "EmptyDataError"
            THEN outcome.exc = "" /\ outcome.val = NoneVal
            ELSE /\ base.exc = ""
                 /\ outcome.exc = ""
                 /\ outcome.val.kind = "df"
                 /\ \E c \in {c_fullyQualifiedName, c_fqName} :
                       outcome.val.cols = base.val.cols \o <<c>>
                 /\ Len(outcome.val.rows) = Len(base.val.rows)
                 /\ \A i \in 1..Len(base.val.rows) :
                       LET row == outcome.val.rows[i]
                           n == Len(base.val.cols)
                       IN  /\ SubSeq(row, 1, n) = base.val.rows[i]
                           /\ row[n + 1] =
                                 Str(TextOf(row[ColOf(base.val, c_name)])
                                     \o <<" ">>
                                     \o TextOf(row[ColOf(base.val, c_date)]))

\* The validation of a new connection has examined what listScenariosInDB
\* returned.
Validated == ctor.dbscen.done /\ ctor.dbscen.exc = ""

\* C16 as stated: constructing a LocalDBConn or a RemoteDBConn with
\* validation, if listScenariosInDB returns None the construction fails
\* with the database-validation error, whose message identifies the
\* database, and no connection object is returned; if it returns a table the
\* construction succeeds and the scenario names found are logged.
C16_ValidationOutcome ==
    Validated =>
        IF ctor.dbscen.val.kind = "None"
        THEN /\ ctor.phase = "failed"
             /\ ctor.exc \in {"IOError", "Exception"}
             /\ Contains(ctor.msg, <<"Failed to validate database: ">>)
             /\ Contains(ctor.msg, conn.dbfile)
        ELSE /\ ctor.phase = "constructed"
             /\ ctor.exc = ""
             /\ \A i \in 1..Len(ctor.dbscen.val.rows) :
                   Contains(ctor.stdout,
                            TextOf(NamesOf(ctor.dbscen.val)[i]))

\* The k-th smallest member of a set P of positions.
KthIn(P, k) == CHOOSE i \in P : Cardinality({j \in P : j < i}) = k - 1

\* The positions under the catalog's root of the query elements.
QueryElems(doc) ==
    {i \in 1..Len(doc.children) : doc.children[i].tag = "aQuery"}

\* The positions in e of the children that carry a title attribute, and of
\* the region children.
TitledIn(e) == {j \in 1..Len(e.children) : e.children[j].title.t = "str"}

RegionsIn(e) == {j \in 1..Len(e.children) : e.children[j].tag = "region"}

\* The first titled child of e.
TitledChild(e) == e.children[KthIn(TitledIn(e), 1)]

\* parse_batch_query has returned a list for a catalog.
BatchReturned == pbRet.done /\ pbRet.exc = ""

\* The k-th query element of the catalog parsed.
QueryElem(k) == pbDoc.children[KthIn(QueryElems(pbDoc), k)]

\* C17: for a catalog whose query elements all have a titled child,
\* parse_batch_query returns exactly one Query for each query element at the
\* catalog's top level, in document order: the i-th Query has the title, and
\* the serialization, of the titled child of the i-th top-level query
\* element.
C17_OneQueryPerElementInOrder ==
    (pbRet.done /\ pbDoc.ok
        /\ \A i \in QueryElems(pbDoc) : TitledIn(pbDoc.children[i]) # {}) =>
        /\ pbRet.exc = ""
        /\ Len(pbRet.val) = Cardinality(QueryElems(pbDoc))
        /\ \A k \in 1..Len(pbRet.val) :
              /\ pbRet.val[k].title = TitledChild(QueryElem(k)).title.v
              /\ pbRet.val[k].querystr = TitledChild(QueryElem(k)).xml

C17_Witness ==
    /\ BatchReturned
    /\ Len(pbDoc.children) = 3
    /\ pbDoc.children[1].tag = "queryGroup"
    /\ Len(pbRet.val) = 2
    /\ pbRet.val[1].title = <<"c", "d">>
    /\ pbRet.val[2].title = t_title

\* C18: the region filter of a Query is None exactly when its query element
\* has no region sub-elements; otherwise it is the list of the region
\* sub-elements' name attributes in document order; it is never the empty
\* list.
C18_RegionFilter ==
    BatchReturned =>
        \A k \in 1..Len(pbRet.val) :
            LET e == QueryElem(k)
                R == RegionsIn(e)
                rg == pbRet.val[k].regions
            IN  /\ rg = PyNone <=> R = {}
                /\ rg # PyList(<<>>)
                /\ R # {} =>
                      /\ rg.t = "list"
                      /\ Len(rg.v) = Cardinality(R)
                      /\ \A n \in 1..Len(rg.v) :
                            rg.v[n] = e.children[KthIn(R, n)].name.v

C18_Witness ==
    /\ BatchReturned
    /\ Len(pbRet.val) = 2
    /\ pbRet.val[1].regions = PyList(<<s_EU, s_USA>>)
    /\ pbRet.val[2].regions = PyNone

\* Some query element of the catalog has no child with a title attribute.
UntitledQuery ==
    pbDoc.ok /\ \E i \in QueryElems(pbDoc) : TitledIn(pbDoc.children[i]) = {}

\* C19: parsing a catalog in which some query element has no child with a
\* title attribute ends with an error raised to the caller of
\* parse_batch_query (the TypeError of serializing the missing child); no
\* list of queries, partial or complete, is returned, and in no case does a
\* returned Query lack its title or its body.
C19_UntitledQueryFails ==
    pbRet.done =>
        /\ UntitledQuery => pbRet.exc = "TypeError" /\ pbRet.val = <<>>
        /\ \A k \in 1..Len(pbRet.val) :
              pbRet.val[k].title # <<>> /\ pbRet.val[k].querystr # <<>>

C19_Witness ==
    /\ pbRet.done
    /\ UntitledQuery
    /\ Len(pbDoc.children) = 2
    /\ TitledIn(pbDoc.children[1]) # {}
    /\ pbDoc.children[2] = AQuery(<<x_USA>>)

\* The engine invocation of the call in progress has failed: the child
\* process ended with a non-zero status, or the server answered with an
\* error status.
InvocationFailed ==
    /\ mi.runs > 0
    /\ IF conn.kind = "local" THEN mi.rc # 0
       ELSE 400 <= mi.status /\ mi.status < 600

\* C20: a runQuery call invokes the engine at most once (one child process
\* on a local connection, one POST on a remote one) whatever its outcome;
\* once an invocation has failed the call only ends, with an error, and
\* invokes nothing again.
C20_AtMostOneInvocation ==
    call.op = "runQuery" =>
        /\ mi.runs <= 1
        /\ pc \in {"lq_parse", "rq_parse"} => mi.runs = 1
        /\ InvocationFailed =>
              /\ pc \in {"lq_finally", "done"}
              /\ pc = "lq_finally" => pend.set /\ pend.exc # ""
              /\ pc = "done" => outcome.done /\ outcome.exc # ""

C20_Witness ==
    /\ call.op = "runQuery"
    /\ conn.kind = "remote"
    /\ InvocationFailed
    /\ pc = "done"
    /\ mi.runs = 1
    /\ outcome.exc = "HTTPError"


\* A call of runQuery or listScenariosInDB is in progress or has just ended.
InCall == pc # "idle"

\* C21: runQuery and listScenariosInDB leave the connection's configuration
\* and the Query object passed in unchanged: no step of a call changes an
\* attribute of the connection, the Query object a call is entered with is
\* one Query.__init__ made, and it stays that object until the call has
\* ended, whether it returns a table, returns None or raises.
C21_ConnectionAndQueryUnchanged ==
    [][ /\ conn' = conn
        /\ (~InCall /\ InCall' /\ call'.op = "runQuery")
              => call'.query \in Queries
        /\ (InCall /\ InCall') => call'.query = call.query ]_vars

C21_Witness ==
    /\ pc = "done"
    /\ call.op = "runQuery"
    /\ call.regions = PyStr(s_USA)
    /\ call.query \in Queries
    /\ call.query.regions = PyList(<<s_USA, s_EU>>)
    /\ outcome.exc # ""


\* The titles of a catalog are pairwise distinct.
UniqueTitles(qs) ==
    \A j, k \in DOMAIN qs : qs[j].title = qs[k].title => j = k

\* The runQuery call that ended k-th was for the k-th query of the catalog,
\* with the arguments importdata was given.
CalledFor(k) ==
    /\ imp.calls[k].query = imp.queries[k]
    /\ imp.calls[k].scenarios = imp.scenarios
    /\ imp.calls[k].regions = imp.regions
    /\ imp.calls[k].warn_empty = imp.warn_empty

\* C23: for a catalog with unique titles, importdata calls runQuery once
\* per query, in catalog order, with the scenarios, regions and warn_empty
\* it was given; the dictionary it returns has exactly one entry per query,
\* under the query's title, holding what that call returned, None where
\* the engine printed nothing.  While the loop runs, the calls made so far
\* are those for the first queries, and the call in progress is for the
\* next one.
C23_OneCallAndEntryPerQuery ==
    (imp.phase \in {"loop", "returned"} /\ UniqueTitles(imp.queries)) =>
        /\ Len(imp.calls) = imp.i - 1
        /\ \A k \in DOMAIN imp.calls : CalledFor(k) /\ imp.calls[k].exc = ""
        /\ (imp.phase = "loop" /\ pc # "idle") =>
              /\ imp.i <= Len(imp.queries)
              /\ call = [op |-> "runQuery", query |-> imp.queries[imp.i],
                         scenarios |-> imp.scenarios,
                         regions |-> imp.regions,
                         warn_empty |-> imp.warn_empty]
        /\ imp.phase = "returned" =>
              /\ Len(imp.calls) = Len(imp.queries)
              /\ Len(imp.rslts) = Len(imp.queries)
              /\ \A k \in DOMAIN imp.queries :
                    /\ imp.rslts[k].k = imp.queries[k].title
                    /\ imp.rslts[k].v = imp.calls[k].val
                    /\ imp.calls[k].out = <<>> => imp.rslts[k].v = NoneVal

C23_Witness ==
    /\ imp.phase = "returned"
    /\ UniqueTitles(imp.queries)
    /\ Len(imp.queries) = 2
    /\ imp.regions = PyStr(s_USA)
    /\ imp.rslts[1].v = NoneVal
    /\ imp.rslts[2].v # NoneVal


\* The permutations of 1..n.
Perms(n) == {p \in [1..n -> 1..n] : \A i, j \in 1..n : p[i] = p[j] => i = j}

\* The text with its data lines in the order p: the header line, then the
\* data lines p[1], p[2], ..., each ended by a newline.
Permuted(txt, p) ==
    LET lines == CsvLines(txt)
    IN  Join(<<NL>>, <<lines[1]>> \o [i \in DOMAIN p |-> lines[p[i] + 1]])
        \o <<NL>>

\* Two data frames with the same columns and the same rows, each as many
\* times, in any order.
SameUpToRowOrder(a, b) ==
    /\ a.kind = "df" /\ b.kind = "df"
    /\ a.cols = b.cols
    /\ Len(a.rows) = Len(b.rows)
    /\ \A r \in Range(a.rows) \cup Range(b.rows) :
          Cardinality({i \in DOMAIN a.rows : a.rows[i] = r})
              = Cardinality({i \in DOMAIN b.rows : b.rows[i] = r})

\* _parserslt has returned a table.
TableReturned == prRet.done /\ prRet.exc = "" /\ prRet.val.kind = "df"

\* C24: the table returned depends only on the multiset of data rows the
\* engine printed: whenever _parserslt returns a table for a text, it
\* returns, for the same text with its data lines in any other order, a
\* table with the same columns and the same rows up to their order.
C24_RowOrderIrrelevant ==
    TableReturned =>
        \A p \in Perms(Len(CsvLines(prTxt)) - 1) :
            LET r == _parserslt(Permuted(prTxt, p), prWarn, t_title, <<>>)
            IN  r.exc = "" /\ SameUpToRowOrder(prRet.val, r.val)

C24_Witness ==
    /\ TableReturned
    /\ Len(prSrc.rows) = 2
    /\ prSrc.rows[1] # prSrc.rows[2]
    /\ Len(prRet.val.rows) = 1
    /\ \E j \in DOMAIN prSrc.header : prSrc.header[j] = value_col_name


\* The query string _runmi is given: the query's own, with its newlines, in
\* runQuery, and the introspection query in listScenariosInDB.
QueryStringLogged ==
    IF call.op = "runQuery" THEN call.query.querystr ELSE ListScenariosQuery

CompleteScript ==
    ScriptText(StripAtom(call.query.querystr, NL), _querylist(call.scenarios),
               _querylist(EffectiveRegions(call.regions, call.query)))

\* A step of LocalDBConn.runQuery that starts the engine.
EngineStarts ==
    /\ conn.kind = "local"
    /\ call.op = "runQuery"
    /\ mi'.runs = mi.runs + 1

\* C26: LocalDBConn.runQuery starts the engine only when the temporary file
\* exists, holds the complete script and has been closed, and the command
\* line the engine is started with is the one built for that file, with the
\* file's name as its last word.
C26_ScriptClosedBeforeEngine ==
    [][ EngineStarts =>
          /\ fs[loc.tmp].exists
          /\ ~fs[loc.tmp].open
          /\ fs[loc.tmp].text = CompleteScript
          /\ mi'.cmd = LocalCmd(conn, loc.tmp)
          /\ mi'.cmd[Len(mi'.cmd)] = loc.tmp
          /\ mi'.payload = CompleteScript ]_vars

C26_Witness ==
    /\ conn.kind = "local"
    /\ call.op = "runQuery"
    /\ call.regions = PyList(<<s_EU>>)
    /\ call.scenarios = PyList(<<s_ref>>)
    /\ mi.runs = 1
    /\ mi.payload = CompleteScript
    /\ mi.cmd[Len(mi.cmd)] = loc.tmp
    /\ ~fs[loc.tmp].open


\* Task j of the tasks jb has a temporary file of its own: created and not
\* yet removed.
InFlight(jb, j) == jb[j].pc \in {"write", "close", "runmi", "finally"}

\* C22: with the runQuery calls of the pool's tasks running concurrently on
\* one local connection, the temporary files of any two calls in flight
\* have different names; a file is removed only by the call it belongs to,
\* in its finally block, and is the file of no other call in flight; and
\* the engine of each call finds, under the name on its command line, a
\* file holding the script that call wrote.
C22_OwnScriptFile ==
    [][ conn.kind = "local" =>
          /\ \A j, k \in DOMAIN job' :
                (j # k /\ InFlight(job', j) /\ InFlight(job', k))
                    => job'[j].tmp # job'[k].tmp
          /\ \A n \in TmpNames :
                (fs[n].exists /\ ~fs'[n].exists) =>
                    \E j \in DOMAIN job :
                       /\ job[j].pc = "finally" /\ job'[j].pc = "store"
                       /\ job[j].tmp = n
                       /\ \A k \in DOMAIN job \ {j} :
                             InFlight(job, k) => job[k].tmp # n
          /\ \A j \in DOMAIN job' :
                job'[j].read.done =>
                    /\ job'[j].read.ok
                    /\ job'[j].read.text = job'[j].script
                    /\ job'[j].cmd[Len(job'[j].cmd)] = job'[j].tmp ]_vars

C22_Witness ==
    /\ conn.kind = "local"
    /\ Len(job) >= 2
    /\ job[1].pc = "finally"
    /\ job[1].read.done /\ job[1].read.ok
    /\ job[2].pc = "runmi"
    /\ job[1].tmp # job[2].tmp
    /\ job[1].script # job[2].script
    /\ fs[job[1].tmp].text = job[1].script
    /\ fs[job[2].tmp].text = job[2].script


\* runQuery has given task j a table.
GotTable(j) == job[j].res.exc = "" /\ job[j].res.val.kind = "df"

\* This step ends the save call of task j after its runQuery call.
SaveEnds(j) == job[j].pc = "store" /\ job'[j].pc \in {"end", "raised"}

\* C27: save creates or changes an output file only in the step that ends
\* a save call whose runQuery call was made and returned a table, and then
\* it is that task's output file, holding that table; a save call that
\* finds its output file there with force unset ends without a runQuery
\* call, and no task is given a second one; a save call whose query failed
\* or returned None leaves every output file as it was.
C27_OutputWrittenOnlyForTable ==
    [][ /\ outdir' # outdir =>
              \E j \in DOMAIN job :
                 /\ SaveEnds(j)
                 /\ job[j].rq = 1
                 /\ GotTable(j)
                 /\ outdir' = [outdir EXCEPT
                                 ![batch.tasks[j].save_to] =
                                     [exists |-> TRUE, df |-> job[j].res.val,
                                      by |-> j]]
        /\ \A j \in DOMAIN job :
              /\ ( /\ job[j].pc = "start"
                   /\ job'[j].pc \notin {"start", "killed"}
                   /\ outdir[batch.tasks[j].save_to].exists
                   /\ ~batch.force )
                     => job'[j].pc = "end" /\ job'[j].rq = 0
              /\ job[j].pc # "start" => job'[j].rq = job[j].rq
              /\ job'[j].rq <= 1
              /\ (SaveEnds(j) /\ ~GotTable(j)) => outdir' = outdir ]_vars

C27_Witness ==
    /\ batch.force
    /\ Len(job) >= 2
    /\ job[1].pc = "end" /\ job[2].pc = "end"
    /\ job[1].failed
    /\ outdir[batch.tasks[1].save_to] = OldOut
    /\ outdir[batch.tasks[2].save_to].by = 2
    /\ outdir[batch.tasks[2].save_to].df = job[2].res.val

\* The save call of task j has ended, by a return or by an exception.
SaveOver(j) == job[j].pc \in {"end", "raised"}

\* C28 as stated: a query whose engine run fails, on a local or a remote
\* connection, is reported as failed (its save call ends with the message
\* and raises nothing, so that pool.map goes on to the other queries), and
\* when the batch reports completion every query of the catalog has been
\* attempted or skipped.
C28_FailedRunReported ==
    /\ \A j \in DOMAIN job :
          (job[j].failed /\ SaveOver(j)) =>
              /\ job[j].pc = "end"
              /\ Echo("failed", batch.tasks[j].query.title)
                     \in Range(job[j].echo)
    /\ (\E j \in DOMAIN job : job[j].failed) => batch.phase # "raised"
    /\ batch.phase = "complete" =>
          \A j \in DOMAIN batch.tasks : job[j].pc = "end"

\* C29 as stated: the queries of a catalog whose titles are pairwise
\* distinct are given pairwise distinct output file paths.
C29_DistinctTitlesDistinctPaths ==
    \A j, k \in DOMAIN batch.tasks :
        batch.tasks[j].query.title # batch.tasks[k].query.title
            => batch.tasks[j].save_to # batch.tasks[k].save_to

====
